---- MODULE Spec2Model ----
(***************************************************************************)
(* A model of the nlane software transactional memory engine               *)
(* (include/nlane/transactional, src/transactional).                       *)
(*                                                                         *)
(* Every engine (one per thread) is a little state machine whose position  *)
(* is pc[e].  An action is one access to shared state (a stripe of the     *)
(* lock table, a word of target memory, a global counter) together with    *)
(* the engine-local computation that follows it up to the next shared      *)
(* access; memory is taken to be sequentially consistent.                  *)
(*                                                                         *)
(* Widths: TLC's integers are 32 bit, so a Word is WordBits wide and a     *)
(* Version is VersionBits wide instead of 64; the read-version lock bit    *)
(* stays the top bit of a Version and the "no timestamp" sentinel the      *)
(* all-ones Version.                                                       *)
(***************************************************************************)
EXTENDS Integers, Sequences, FiniteSets, TLC

\* ------------------------------------------------------------------ bounds

\* Width of a Word of the model (uint64_t in the source).
WordBits == 2

\* Width of a Version of the model (uint64_t in the source).
VersionBits == 8

\* How often the retry loop of Atomic / AtomicRead restarts one block.
MaxRetries == 1

\* ------------------------------------------------------- program constants

kLockTableSize == 4096

kPoolEntries == 255

kGreedyWrites == 10

INITIALIZED_bit == 1
RUNNING_bit == 2
READ_ONLY_bit == 4

kBackoffBits == 16

RECURSIVE Pow2(_)
Pow2(n) ==
    IF n = 0 THEN 1 ELSE 2 * Pow2(n - 1)

WordMod == Pow2(WordBits)

\* ~static_cast<Word>(0)
AllOnes == WordMod - 1

Words == 0 .. AllOnes

\* ReadLock::kLockMask: the top bit of a Version.
kLockMask == Pow2(VersionBits - 1)

\* std::numeric_limits<Version>::max(): "no contention-manager timestamp".
kMaxVersion == Pow2(VersionBits) - 1

\* ------------------------------------------------------------ word algebra

RECURSIVE BitAndN(_, _, _)
BitAndN(a, b, n) ==
    IF n = 0 THEN 0
    ELSE (a % 2) * (b % 2) + 2 * BitAndN(a \div 2, b \div 2, n - 1)

\* a & b on Words
BitAnd(a, b) == BitAndN(a, b, WordBits)

\* ~a on Words
BitNot(a) == AllOnes - a

\* a | b on Words
BitOr(a, b) == BitNot(BitAnd(BitNot(a), BitNot(b)))

\* bit i (0 = lowest) of Word a
BitOf(a, i) == (a \div Pow2(i)) % 2

\* ------------------------------------------------------------- lock table

\* Word-aligned addresses of the model.  8 and 4104 = 8 + 4096 fall on the
\* same stripe; 16 and 24 have stripes of their own.
Addrs == {8, 16, 24, 4104}

GetLockIndex(address) == address % kLockTableSize

Stripes == {GetLockIndex(a) : a \in Addrs}

\* The engines, one per thread: two threads run concurrently.
Engines == {1, 2}

\* ReadLock: the version word, lock bit included.
ReadLockLock(v) == IF v >= kLockMask THEN v ELSE v + kLockMask

\* Mutant of ReadLockUnlock: the unlock steps the version.
ReadLockUnlockNext(v) == (v % kLockMask) + 1

ReadLockUnlock(v) == IF v >= kLockMask THEN v - kLockMask ELSE v

\* Mutant of ReadLockUnlockTo: the version is stored, the lock bit is kept.
ReadLockUnlockToKeepsBit(v, new_version) ==
    IF v >= kLockMask THEN new_version + kLockMask ELSE new_version

\* Mutant of ReadLockUnlockTo: the lock bit is cleared, the version kept.
ReadLockUnlockToOld(v, new_version) == ReadLockUnlock(v)

ReadLockUnlockTo(v, new_version) == new_version

ReadLockIsLocked(v) == v >= kLockMask

\* WriteLock: 0 is free, e is "engine e | kLockMask".
WriteLockIsLocked(w) == w # 0

WriteLockIsLockedBy(w, e) == w = e

WriteLockGetOwner(w) == w

\* --------------------------------------------------- per-thread buffers

\* PooledList<_Ty, 255>: the live prefix [0, next_index_) as a sequence.  A
\* slot keeps what its last user left in it; the only field ever read before
\* it is written is ReadSetEntry::old_version_, which no code assigns
\* (SetVersion is never called), so it is the value-initialized 0 throughout.
PooledListCreate(list, entry) == Append(list, entry)

PooledListContains(list, key) == \E i \in 1 .. Len(list) : list[i].key = key

PooledListGet(list, key) ==
    LET hits == {i \in 1 .. Len(list) : list[i].key = key}
    IN  IF hits = {} THEN 0 ELSE CHOOSE i \in hits : \A j \in hits : i <= j

PooledListGetOrCreate(list, entry) ==
    IF PooledListContains(list, entry.key) THEN list ELSE Append(list, entry)

\* GetEntry throws std::runtime_error("Out of memory") for index >= 255.
PooledListFull(list) == Len(list) >= kPoolEntries

\* An index that Create / GetOrCreate counted in next_index_ before GetEntry
\* threw: it has no slot, nothing is stored for it.
NoSlot == [key |-> 0]

\* Create / GetOrCreate on a full list: size_t index = next_index_++; then
\* GetEntry(index) throws.
PooledListOverflow(list) == Append(list, NoSlot)

\* Iterator::operator* at position i (from 1) calls GetEntry(i - 1), which
\* throws for an index without a slot.
IteratorThrows(i) == i > kPoolEntries

ReadSetEntry(index) == [key |-> index, old_version |-> 0]

WriteSetEntry(index) == [key |-> index]

\* WriteData::operator=(key) followed by WriteData::Set
WriteDataSet(address, new_data, new_mask) ==
    [key |-> address, data |-> new_data, mask |-> new_mask]

\* Mutant of WriteDataExtend: the entry keeps what the first write set.
WriteDataKeepFirst(entry, new_data, new_mask) == entry

\* WriteData::Extend
WriteDataExtend(entry, new_data, new_mask) ==
    [key  |-> entry.key,
     data |-> BitOr(BitAnd(entry.data, BitNot(new_mask)), BitAnd(new_data, new_mask)),
     mask |-> BitOr(entry.mask, new_mask)]

\* Mutant of CommitData: the whole buffered word is stored.
CommitDataWhole(old, entry) == entry.data

\* TransactionEngine::CommitData: the word stored to *addr
CommitData(old, entry) ==
    BitOr(BitAnd(old, BitNot(entry.mask)), BitAnd(entry.data, entry.mask))

\* WriteWord, acquire path: a partial-word write captures the untouched bits
MergePartial(data, mask, current) ==
    IF mask # AllOnes
    THEN BitOr(BitAnd(data, mask), BitAnd(current, BitNot(mask)))
    ELSE data

\* Mutants of NeedsExtend: one version late; never.
NeedsExtendLate(v, version) == v > version + 1

NeverExtend(v, version) == FALSE

\* ReadWord / WriteWord: "if (v > version_)" decides whether to Extend
NeedsExtend(v, version) == v > version

\* Mutant of CommitNeedsValidation: Commit never validates.
NeverValidate(new_version, version) == FALSE

\* Commit: "if (new_version > version_ + 1)" decides whether to validate
CommitNeedsValidation(new_version, version) == new_version > version + 1

\* Mutant of GetIncGlobalVersion: the counter is stepped twice.
GetIncGlobalVersionTwice(gv) == gv + 2

\* GetIncGlobalVersion: global_version.fetch_add(1u) + 1u, the value stored
\* and returned
GetIncGlobalVersion(gv) == gv + 1

\* Mutant of ValidateEntry: every entry passes.
ValidateAlways(entry, v, cur, owned) == TRUE

\* Mutant of ValidateEntry: a set lock bit excuses the entry, whoever owns
\* the stripe.
ValidateAnyLockBit(entry, v, cur, owned) ==
    \/ cur = entry.old_version
    \/ ReadLockIsLocked(v)

\* ValidateReadSet, one entry: v is the first sample of the stripe's read
\* version, cur the second, owned is w_lock.IsLockedBy(this)
ValidateEntry(entry, v, cur, owned) ==
    \/ cur = entry.old_version
    \/ (ReadLockIsLocked(v) /\ owned)

\* CmOnRestart: the backoff slept for, and the backoff kept (uint16_t)
CmBackoffSlept(backoff, rand) == (backoff + rand) % Pow2(kBackoffBits)

CmBackoffNext(backoff, rand) == (2 * CmBackoffSlept(backoff, rand)) % Pow2(kBackoffBits)

\* rng_.Next() & 0xF at its largest
kMaxDraw == 15

\* static_cast<uint16_t>(rng_.Next() & 0xF), as far as the model draws it
RandVals == {0, kMaxDraw}

\* cm_backoff_ after k restarts that each drew kMaxDraw, and the nanoseconds
\* the last of them slept for
RECURSIVE BackoffAfter(_)
BackoffAfter(k) == IF k = 0 THEN 0 ELSE CmBackoffNext(BackoffAfter(k - 1), kMaxDraw)

SleptAfter(k) == IF k = 0 THEN 0 ELSE CmBackoffSlept(BackoffAfter(k - 1), kMaxDraw)

\* CmOnWrite: claim a greedy timestamp?
CmWantsTimestamp(ts, write_set_size) == ts = kMaxVersion /\ write_set_size >= kGreedyWrites

\* ------------------------------------------------------ atomic blocks

\* The function handed to Atomic / AtomicRead, as a list of operations:
\*   r     v := ReadWord(a), appended to the values read so far
\*   w     WriteWord(a, (src = 0 ? 0 : value of read number src) + k, m)
\*   ifge  if (value of read number src) >= k go on, else return
\*   throw an exception that is no TransactionError leaves the function
\*   atomic      Atomic is called with the operations up to the matching ret
\*   atomicread  AtomicRead is called with the operations up to the matching ret
\*   ret   the function of the nested call returns
\*   init  ThreadInit()
OpR(a) == [t |-> "r", a |-> a, src |-> 0, k |-> 0, m |-> 0]

OpW(a, src, k, m) == [t |-> "w", a |-> a, src |-> src, k |-> k, m |-> m]

OpIfGe(src, k) == [t |-> "ifge", a |-> 0, src |-> src, k |-> k, m |-> 0]

OpThrow == [t |-> "throw", a |-> 0, src |-> 0, k |-> 0, m |-> 0]

OpAtomic == [t |-> "atomic", a |-> 0, src |-> 0, k |-> 0, m |-> 0]

OpAtomicRead == [t |-> "atomicread", a |-> 0, src |-> 0, k |-> 0, m |-> 0]

OpRet == [t |-> "ret", a |-> 0, src |-> 0, k |-> 0, m |-> 0]

OpInit == [t |-> "init", a |-> 0, src |-> 0, k |-> 0, m |-> 0]

Block(kind, ops) == [kind |-> kind, ops |-> ops]

\* The kind of transaction the wrapper called by op asks for
NestedKind(op) == IF op.t = "atomic" THEN "rw" ELSE "ro"

\* The index of the next call of the function from position ip on (control
\* operations are local to the function, and a nested wrapper that joined
\* the running transaction returns without a call), Len + 1 when it returns.
RECURSIVE NextIp(_, _, _)
NextIp(ops, ip, vals) ==
    IF ip > Len(ops) THEN Len(ops) + 1
    ELSE IF ops[ip].t = "ifge"
         THEN IF vals[ops[ip].src] >= ops[ip].k
              THEN NextIp(ops, ip + 1, vals)
              ELSE Len(ops) + 1
         ELSE IF ops[ip].t = "ret" THEN NextIp(ops, ip + 1, vals)
         ELSE ip

\* The data word a "w" operation passes to WriteWord
WriteValue(op, vals) ==
    ((IF op.src = 0 THEN 0 ELSE vals[op.src]) + op.k) % WordMod

\* HammerCorrectness: if (v1 >= amount) { v2 = Read(b); Write(a, v1 - amount);
\* Write(b, v2 + amount); }
Transfer(a, b, amount) ==
    Block("rw", << OpR(a), OpIfGe(1, amount), OpR(b),
                   OpW(a, 1, WordMod - amount, AllOnes),
                   OpW(b, 2, amount, AllOnes) >>)

\* -------------------------------------------------------------- state

VARIABLES
    mem,             \* target memory: address -> Word
    r_lock,          \* lock table, LockEntry::r_lock: stripe -> Version with lock bit
    w_lock,          \* lock table, LockEntry::w_lock: stripe -> 0 or the owning engine
    global_version,  \* transaction_support.cpp global_version
    greedy_version,  \* transaction_support.cpp greedy_version
    state_,          \* TransactionEngine::state_
    version_,        \* TransactionEngine::version_ (the start version)
    cm_ts_,          \* TransactionEngine::cm_ts_
    cm_backoff_,     \* TransactionEngine::cm_backoff_
    read_set_,       \* TransactionEngine::read_set_
    write_set_,      \* TransactionEngine::write_set_
    write_data_,     \* TransactionEngine::write_data_
    pc,              \* where each thread stands
    loc,             \* the locals of the engine function a thread is inside
    blocks,          \* the atomic blocks each thread runs, in order
    bi,              \* the index of the block a thread is at
    ip,              \* the next operation of the block's function
    vals,            \* what the ReadWord calls of this attempt returned
    retries,         \* restarts of the current block so far
    err,             \* the exception in flight in the wrapper's catch
    result,          \* how each finished block ended
    wrote,           \* history: addresses this attempt has stored to target memory
    clog,            \* history: per commit version, the write data it put in memory
    start0,          \* history: the start version sampled by Begin for this attempt
    slept_ns         \* history: the nanoseconds the last CmOnRestart slept for

shared == <<mem, r_lock, w_lock, global_version, greedy_version>>

engine == <<state_, version_, cm_ts_, cm_backoff_>>

buffers == <<read_set_, write_set_, write_data_>>

user == <<blocks, bi, ip, vals, retries, err, result>>

hist == <<wrote, clog, start0, slept_ns>>

vars == <<mem, r_lock, w_lock, global_version, greedy_version, state_, version_,
          cm_ts_, cm_backoff_, read_set_, write_set_, write_data_, pc, loc,
          blocks, bi, ip, vals, retries, err, result, wrote, clog, start0,
          slept_ns>>

\* Target memory before any transaction ran.
InitMem == [a \in Addrs |-> IF a = 8 THEN 1 ELSE IF a = 16 THEN 2 ELSE 0]

NoLoc == [a |-> 0, d |-> 0, m |-> 0, v1 |-> 0, v |-> 0, i |-> 0, nv |-> 0,
          owner |-> 0, ctx |-> "none", ok |-> TRUE]

\* The state after construction of the engines and of the lock table
\* (InitSupport), every thread about to call ThreadInit; m is target
\* memory, stripes the lock-table entries its words map to, bl gives each
\* thread its blocks.  rounds[e] is the number of restarts thread e has been
\* through in transactions that ended before (cm_backoff_ outlives them).
InitAfter(m, stripes, bl, rounds) ==
    /\ mem = m
    /\ r_lock = [s \in stripes |-> 0]
    /\ w_lock = [s \in stripes |-> 0]
    /\ global_version = 0
    /\ greedy_version = 0
    /\ state_ = [e \in Engines |-> "UNINITIALIZED"]
    /\ version_ = [e \in Engines |-> 0]
    /\ cm_ts_ = [e \in Engines |-> kMaxVersion]
    /\ cm_backoff_ = [e \in Engines |-> BackoffAfter(rounds[e])]
    /\ read_set_ = [e \in Engines |-> << >>]
    /\ write_set_ = [e \in Engines |-> << >>]
    /\ write_data_ = [e \in Engines |-> << >>]
    /\ pc = [e \in Engines |-> "start"]
    /\ loc = [e \in Engines |-> NoLoc]
    /\ blocks = bl
    /\ bi = [e \in Engines |-> 1]
    /\ ip = [e \in Engines |-> 0]
    /\ vals = [e \in Engines |-> << >>]
    /\ retries = [e \in Engines |-> 0]
    /\ err = [e \in Engines |-> "none"]
    /\ result = [e \in Engines |-> << >>]
    /\ wrote = [e \in Engines |-> {}]
    /\ clog = << >>
    /\ start0 = [e \in Engines |-> 0]
    /\ slept_ns = [e \in Engines |-> SleptAfter(rounds[e])]

\* No thread has restarted a transaction yet.
InitOn(m, stripes, bl) == InitAfter(m, stripes, bl, [e \in Engines |-> 0])

InitWith(bl) == InitOn(InitMem, Stripes, bl)

\* ------------------------------------------------------ shorthands

CurBlock(e) == blocks[e][bi[e]]

CurOp(e) == CurBlock(e).ops[ip[e]]

\* The values the function has read so far, in order
ValsOf(vs) == [i \in 1 .. Len(vs) |-> vs[i].v]

\* Mutant of RunningState: Begin leaves the state at INITIALIZED.
RunningStateNotSet(kind) == "INITIALIZED"

\* The state BeginReadWrite / BeginReadOnly sets
RunningState(kind) ==
    IF kind = "rw" THEN "READ_WRITE_RUNNING" ELSE "READ_ONLY_RUNNING"

\* enum class State: the value of each state as a set of bits
StateBits(st) ==
    CASE st = "UNINITIALIZED" -> 0
      [] st = "INITIALIZED" -> INITIALIZED_bit
      [] st = "READ_WRITE_RUNNING" -> INITIALIZED_bit + RUNNING_bit
      [] st = "READ_ONLY_RUNNING" -> INITIALIZED_bit + RUNNING_bit + READ_ONLY_bit

\* (state_ & State::RUNNING_bit) != State::NONE_mask
IsRunning(st) == (StateBits(st) \div RUNNING_bit) % 2 = 1

\* Mutant of IsReadWriteCompatible: any running transaction is compatible.
ReadWriteAlwaysCompatible(st) ==
    IF ~IsRunning(st) THEN "NO_RUNNING" ELSE "COMPATIBLE"

\* TransactionEngine::IsReadWriteCompatible
IsReadWriteCompatible(st) ==
    IF ~IsRunning(st) THEN "NO_RUNNING"
    ELSE IF st = "READ_WRITE_RUNNING" THEN "COMPATIBLE" ELSE "INCOMPATIBLE"

\* Mutant of IsReadOnlyCompatible: only a read-only transaction is compatible.
ReadOnlyNeedsReadOnly(st) ==
    IF ~IsRunning(st) THEN "NO_RUNNING"
    ELSE IF st = "READ_ONLY_RUNNING" THEN "COMPATIBLE" ELSE "INCOMPATIBLE"

\* TransactionEngine::IsReadOnlyCompatible
IsReadOnlyCompatible(st) ==
    IF ~IsRunning(st) THEN "NO_RUNNING"
    ELSE IF st \in {"READ_WRITE_RUNNING", "READ_ONLY_RUNNING"} THEN "COMPATIBLE"
         ELSE "INCOMPATIBLE"

Promotion(kind, st) ==
    IF kind = "rw" THEN IsReadWriteCompatible(st) ELSE IsReadOnlyCompatible(st)

\* read_set_.Clear(); write_set_.Clear(); write_data_.Clear();
ClearBuffers(e) ==
    /\ read_set_' = [read_set_ EXCEPT ![e] = << >>]
    /\ write_set_' = [write_set_ EXCEPT ![e] = << >>]
    /\ write_data_' = [write_data_ EXCEPT ![e] = << >>]

\* The what() of the retry-eligible errors (TransactionError{ what, true })
RetryErrors ==
    {"Read inconsistent state", "Stuff", "Inconsistent state after write",
     "Failed to validate read set"}

\* The what() of the non-retry TransactionError a wrapper throws when the
\* running transaction is INCOMPATIBLE with the one asked for
IncompatibleError(kind) ==
    IF kind = "rw"
    THEN "Cannot embed read-write transaction inside read-only transaction"
    ELSE "Read only transaction is for some reason incompatible. This should never happen."

\* TransactionError::shouldRetry of the exception in flight
ShouldRetry(what) == what \in RetryErrors

\* throw TransactionError{ what, true }: caught by the wrapper's first handler
ThrowRetry(e, what) ==
    /\ pc' = [pc EXCEPT ![e] = "caught"]
    /\ err' = [err EXCEPT ![e] = what]
    /\ loc' = [loc EXCEPT ![e] = NoLoc]

\* throw std::runtime_error{ "Out of memory" } from GetEntry: no
\* TransactionError, caught by the wrapper's second handler
ThrowFatal(e) ==
    /\ pc' = [pc EXCEPT ![e] = "caught"]
    /\ err' = [err EXCEPT ![e] = "Out of memory"]
    /\ loc' = [loc EXCEPT ![e] = NoLoc]

\* Rollback() entered, the caller throwing what after it: with nothing to
\* unlock it clears the buffers and the throw follows at once, else the
\* unlock loop starts.
BeginRollback(e, what) ==
    IF write_set_[e] = << >>
    THEN /\ ClearBuffers(e)
         /\ ThrowRetry(e, what)
    ELSE /\ pc' = [pc EXCEPT ![e] = "rb"]
         /\ loc' = [loc EXCEPT ![e] = [NoLoc EXCEPT !.i = 1, !.ctx = what]]
         /\ UNCHANGED <<buffers, err>>

\* ReadWord returns data to the function; the record of the read keeps the
\* version the double-sample loop accepted (0 for an owned read, which samples
\* none)
ReturnRead(e, address, data, own) ==
    LET vs == Append(vals[e], [a |-> address, v |-> data, own |-> own,
                               ver |-> loc[e].v1])
    IN  /\ vals' = [vals EXCEPT ![e] = vs]
        /\ ip' = [ip EXCEPT ![e] = NextIp(CurBlock(e).ops, ip[e] + 1, ValsOf(vs))]
        /\ pc' = [pc EXCEPT ![e] = "user"]
        /\ loc' = [loc EXCEPT ![e] = NoLoc]

\* WriteWord returns to the function
ReturnWrite(e) ==
    /\ ip' = [ip EXCEPT ![e] = NextIp(CurBlock(e).ops, ip[e] + 1, ValsOf(vals[e]))]
    /\ pc' = [pc EXCEPT ![e] = "user"]
    /\ loc' = [loc EXCEPT ![e] = NoLoc]

\* Atomic / AtomicRead is left: by return ("ok") or by the rethrown exception
FinishBlock(e, outcome) ==
    /\ pc' = [pc EXCEPT ![e] = "idle"]
    /\ loc' = [loc EXCEPT ![e] = NoLoc]
    /\ bi' = [bi EXCEPT ![e] = @ + 1]
    /\ ip' = [ip EXCEPT ![e] = 0]
    /\ vals' = [vals EXCEPT ![e] = << >>]
    /\ retries' = [retries EXCEPT ![e] = 0]
    /\ err' = [err EXCEPT ![e] = "none"]
    /\ result' = [result EXCEPT ![e] = Append(@, outcome)]
    /\ UNCHANGED blocks

\* An assert of the engine fails: abort() ends the process.
AssertFailed ==
    /\ pc' = [e \in Engines |-> "aborted"]
    /\ UNCHANGED <<shared, engine, buffers, loc, user, hist>>

Crashed == \E e \in Engines : pc[e] = "aborted"

\* ------------------------------------------------ lifecycle and wrapper

\* Mutant of InitState: Init without its guard.
InitStateAlways(st) == "INITIALIZED"

\* TransactionEngine::Init: if (state_ != UNINITIALIZED) return; ...
\* state_ = INITIALIZED
InitState(st) == IF st # "UNINITIALIZED" THEN st ELSE "INITIALIZED"

\* TransactionEngine::Init (ThreadInit)
ThreadInit(e) ==
    /\ pc[e] = "start"
    /\ state_' = [state_ EXCEPT ![e] = InitState(@)]
    /\ pc' = [pc EXCEPT ![e] = "idle"]
    /\ UNCHANGED <<shared, version_, cm_ts_, cm_backoff_, buffers, loc, user, hist>>

\* BeginReadWrite / BeginReadOnly pass their assert
BeginAllowed(e, kind) ==
    state_[e] = RunningState(kind) \/ state_[e] = "INITIALIZED"

\* Mutant of BeginTx: the start version is not sampled.
BeginTxKeepsVersion(e, kind) ==
    LET restart == state_[e] = RunningState(kind)
    IN  /\ \E rand \in RandVals :
              /\ cm_backoff_' = [cm_backoff_ EXCEPT
                                    ![e] = IF restart THEN CmBackoffNext(@, rand) ELSE @]
              /\ slept_ns' = [slept_ns EXCEPT
                                 ![e] = IF restart THEN CmBackoffSlept(cm_backoff_[e], rand)
                                                   ELSE @]
        /\ version_' = version_
        /\ state_' = [state_ EXCEPT ![e] = RunningState(kind)]
        /\ start0' = [start0 EXCEPT ![e] = version_[e]]
        /\ wrote' = [wrote EXCEPT ![e] = {}]

\* BeginReadWrite / BeginReadOnly: CmOnRestart on a restart, then the start
\* version is sampled and the state set
BeginTx(e, kind) ==
    LET restart == state_[e] = RunningState(kind)
    IN  /\ \E rand \in RandVals :
              /\ cm_backoff_' = [cm_backoff_ EXCEPT
                                    ![e] = IF restart THEN CmBackoffNext(@, rand) ELSE @]
              /\ slept_ns' = [slept_ns EXCEPT
                                 ![e] = IF restart THEN CmBackoffSlept(cm_backoff_[e], rand)
                                                   ELSE @]
        /\ version_' = [version_ EXCEPT ![e] = global_version]
        /\ state_' = [state_ EXCEPT ![e] = RunningState(kind)]
        /\ start0' = [start0 EXCEPT ![e] = global_version]
        /\ wrote' = [wrote EXCEPT ![e] = {}]

\* Atomic / AtomicRead called with block b outside any transaction: the
\* promotion check says NO_RUNNING and the retry loop is entered with Begin.
EnterAtomic(e, b) ==
    /\ Promotion(b.kind, state_[e]) = "NO_RUNNING"
    /\ IF BeginAllowed(e, b.kind)
       THEN /\ BeginTx(e, b.kind)
            /\ pc' = [pc EXCEPT ![e] = "user"]
            /\ ip' = [ip EXCEPT ![e] = NextIp(b.ops, 1, << >>)]
            /\ UNCHANGED <<shared, cm_ts_, buffers, loc, vals, retries, err, result, clog>>
       ELSE /\ pc' = [x \in Engines |-> "aborted"]
            /\ UNCHANGED <<shared, engine, buffers, loc, ip, vals, retries, err, result,
                           hist>>

\* The thread calls Atomic / AtomicRead with the next of its blocks.
AtomicBegin(e) ==
    /\ pc[e] = "idle"
    /\ bi[e] <= Len(blocks[e])
    /\ EnterAtomic(e, CurBlock(e))
    /\ UNCHANGED <<blocks, bi>>

\* The wrapper caught a retry-eligible TransactionError: the loop runs Begin
\* again and then the function from its start.
Restart(e) ==
    /\ pc[e] = "caught"
    /\ ShouldRetry(err[e])
    /\ retries[e] < MaxRetries
    /\ IF BeginAllowed(e, CurBlock(e).kind)
       THEN /\ BeginTx(e, CurBlock(e).kind)
            /\ pc' = [pc EXCEPT ![e] = "user"]
            /\ ip' = [ip EXCEPT ![e] = NextIp(CurBlock(e).ops, 1, << >>)]
            /\ vals' = [vals EXCEPT ![e] = << >>]
            /\ retries' = [retries EXCEPT ![e] = @ + 1]
            /\ err' = [err EXCEPT ![e] = "none"]
            /\ UNCHANGED <<shared, cm_ts_, buffers, loc, blocks, bi, result, clog>>
       ELSE AssertFailed

\* An exception that is no TransactionError leaves the function.
UserThrow(e) ==
    /\ pc[e] = "user"
    /\ ip[e] <= Len(CurBlock(e).ops)
    /\ CurOp(e).t = "throw"
    /\ pc' = [pc EXCEPT ![e] = "caught"]
    /\ err' = [err EXCEPT ![e] = "foreign exception"]
    /\ UNCHANGED <<shared, engine, buffers, loc, blocks, bi, ip, vals, retries, result, hist>>

\* Mutant of NestedRun: the nested wrapper samples the start version anew.
NestedRunBegins(e) ==
    /\ ip' = [ip EXCEPT ![e] = NextIp(CurBlock(e).ops, ip[e] + 1, ValsOf(vals[e]))]
    /\ version_' = [version_ EXCEPT ![e] = global_version]
    /\ UNCHANGED <<pc, err, state_, cm_ts_, cm_backoff_>>

\* func(); return; of a nested wrapper: the function of the nested block
\* runs inside the transaction that is already running.
NestedRun(e) ==
    /\ ip' = [ip EXCEPT ![e] = NextIp(CurBlock(e).ops, ip[e] + 1, ValsOf(vals[e]))]
    /\ UNCHANGED <<pc, err, engine>>

\* Atomic / AtomicRead called from inside the function of a running block:
\* with COMPATIBLE the wrapper runs the function at once, with no Begin and
\* no Commit and no handler of its own; with INCOMPATIBLE it throws the
\* non-retry TransactionError, which the outermost wrapper catches.
NestedAtomic(e) ==
    /\ pc[e] = "user"
    /\ ip[e] <= Len(CurBlock(e).ops)
    /\ CurOp(e).t \in {"atomic", "atomicread"}
    /\ Promotion(NestedKind(CurOp(e)), state_[e]) # "NO_RUNNING"
    /\ IF Promotion(NestedKind(CurOp(e)), state_[e]) = "COMPATIBLE"
       THEN NestedRun(e)
       ELSE /\ pc' = [pc EXCEPT ![e] = "caught"]
            /\ err' = [err EXCEPT ![e] = IncompatibleError(NestedKind(CurOp(e)))]
            /\ UNCHANGED <<ip, engine>>
    /\ UNCHANGED <<shared, buffers, loc, blocks, bi, vals, retries, result, hist>>

\* ThreadInit() called again, from inside the function of a block.
ThreadInitAgain(e) ==
    /\ pc[e] = "user"
    /\ ip[e] <= Len(CurBlock(e).ops)
    /\ CurOp(e).t = "init"
    /\ state_' = [state_ EXCEPT ![e] = InitState(@)]
    /\ ip' = [ip EXCEPT ![e] = NextIp(CurBlock(e).ops, ip[e] + 1, ValsOf(vals[e]))]
    /\ UNCHANGED <<shared, version_, cm_ts_, cm_backoff_, buffers, pc, loc, blocks, bi,
                   vals, retries, err, result, hist>>

\* The wrapper caught a non-retry error or a foreign exception: End(), rethrow.
CallEnd(e) ==
    /\ pc[e] = "caught"
    /\ ~ShouldRetry(err[e])
    /\ IF ~IsRunning(state_[e]) THEN AssertFailed
       ELSE IF write_set_[e] = << >>
       THEN /\ ClearBuffers(e)
            /\ state_' = [state_ EXCEPT ![e] = "INITIALIZED"]
            /\ FinishBlock(e, "raised")
            /\ UNCHANGED <<shared, version_, cm_ts_, cm_backoff_, hist>>
       ELSE /\ pc' = [pc EXCEPT ![e] = "end"]
            /\ loc' = [loc EXCEPT ![e] = [NoLoc EXCEPT !.i = 1]]
            /\ UNCHANGED <<shared, engine, buffers, user, hist>>

\* End: w_lock.Unlock() of one write-set entry; after the last one the
\* buffers are cleared and the state set.  At an index without a slot the
\* iterator throws: the exception leaves End, and the wrapper's handler with
\* it, before anything is cleared.
EndUnlock(e) ==
    /\ pc[e] = "end"
    /\ IF IteratorThrows(loc[e].i)
       THEN /\ FinishBlock(e, "raised")
            /\ UNCHANGED <<w_lock, buffers, state_>>
       ELSE /\ w_lock' = [w_lock EXCEPT ![write_set_[e][loc[e].i].key] = 0]
            /\ IF loc[e].i = Len(write_set_[e])
               THEN /\ ClearBuffers(e)
                    /\ state_' = [state_ EXCEPT ![e] = "INITIALIZED"]
                    /\ FinishBlock(e, "raised")
               ELSE /\ loc' = [loc EXCEPT ![e].i = @ + 1]
                    /\ UNCHANGED <<buffers, state_, pc, user>>
    /\ UNCHANGED <<mem, r_lock, global_version, greedy_version, version_, cm_ts_,
                   cm_backoff_, hist>>

\* ------------------------------------------------- Rollback and Extend

\* Mutant of RollbackUnlock: the loop runs but unlocks nothing.
RollbackKeepLocks(e) ==
    /\ pc[e] = "rb"
    /\ IF loc[e].i = Len(write_set_[e])
       THEN /\ ClearBuffers(e)
            /\ ThrowRetry(e, loc[e].ctx)
       ELSE /\ loc' = [loc EXCEPT ![e].i = @ + 1]
            /\ UNCHANGED <<buffers, pc, err>>
    /\ UNCHANGED <<shared, engine, blocks, bi, ip, vals, retries, result, hist>>

\* Rollback: w_lock.Unlock() of one write-set entry; after the last one the
\* buffers are cleared and the caller throws the retry-eligible error.
RollbackUnlock(e) ==
    /\ pc[e] = "rb"
    /\ w_lock' = [w_lock EXCEPT ![write_set_[e][loc[e].i].key] = 0]
    /\ IF loc[e].i = Len(write_set_[e])
       THEN /\ ClearBuffers(e)
            /\ ThrowRetry(e, loc[e].ctx)
       ELSE /\ loc' = [loc EXCEPT ![e].i = @ + 1]
            /\ UNCHANGED <<buffers, pc, err>>
    /\ UNCHANGED <<mem, r_lock, global_version, greedy_version, engine, blocks, bi, ip,
                   vals, retries, result, hist>>

\* ValidateReadSet is entered (from Extend or from Commit)
EnterValidate(e, l) ==
    IF read_set_[e] = << >>
    THEN /\ pc' = [pc EXCEPT ![e] = "vrs_ret"]
         /\ loc' = [loc EXCEPT ![e] = [l EXCEPT !.ok = TRUE]]
    ELSE /\ pc' = [pc EXCEPT ![e] = "vrs"]
         /\ loc' = [loc EXCEPT ![e] = [l EXCEPT !.i = 1]]

\* Extend: Version new_version{ GetGlobalVersion() };
Extend(e) ==
    /\ pc[e] = "ext"
    /\ EnterValidate(e, [loc[e] EXCEPT !.nv = global_version])
    /\ UNCHANGED <<shared, engine, buffers, user, hist>>

\* ValidateReadSet: Version v{ lock.r_lock.Get() };
ValidateSample(e) ==
    /\ pc[e] = "vrs"
    /\ loc' = [loc EXCEPT ![e].v = r_lock[read_set_[e][loc[e].i].key]]
    /\ pc' = [pc EXCEPT ![e] = "vrs_cmp"]
    /\ UNCHANGED <<shared, engine, buffers, user, hist>>

\* ValidateReadSet: if (lock.r_lock.Get() != entry.GetVersion()) { if (!((v &
\* kLockMask) && lock.w_lock.IsLockedBy(this))) return false; }
ValidateCompare(e) ==
    LET entry == read_set_[e][loc[e].i]
        good  == ValidateEntry(entry, loc[e].v, r_lock[entry.key],
                               WriteLockIsLockedBy(w_lock[entry.key], e))
    IN  /\ pc[e] = "vrs_cmp"
        /\ IF good /\ loc[e].i < Len(read_set_[e])
           THEN /\ pc' = [pc EXCEPT ![e] = "vrs"]
                /\ loc' = [loc EXCEPT ![e].i = @ + 1]
           ELSE /\ pc' = [pc EXCEPT ![e] = "vrs_ret"]
                /\ loc' = [loc EXCEPT ![e].ok = good]
        /\ UNCHANGED <<shared, engine, buffers, user, hist>>

\* ------------------------------------------------------------ ReadWord

\* The process ends: a failed assert, or the fault of a null dereference.
NoValue == -1

\* ReadWord on a stripe this engine write-owns: entry = write_data_.Get(
\* address); assert(entry != nullptr); return entry->Get().  With no entry
\* for the address the assert ends the process; compiled with NDEBUG the
\* null pointer is dereferenced, which is undefined: the process ends or
\* some word comes back.
OwnedReadValues(e, address) ==
    LET entry == PooledListGet(write_data_[e], address)
    IN  IF entry = 0 THEN Words \cup {NoValue} ELSE {write_data_[e][entry].data}

\* ReadWord is called.  On a stripe this engine write-owns the value comes
\* from write_data_; else the first sample v1 of the stripe's read version
\* is taken.
CallReadWord(e) ==
    /\ pc[e] = "user"
    /\ ip[e] <= Len(CurBlock(e).ops)
    /\ CurOp(e).t = "r"
    /\ LET address == CurOp(e).a
           index   == GetLockIndex(address)
       IN  IF WriteLockIsLockedBy(w_lock[index], e)
           THEN \E r \in OwnedReadValues(e, address) :
                    IF r = NoValue
                    THEN AssertFailed
                    ELSE /\ ReturnRead(e, address, r, TRUE)
                         /\ UNCHANGED <<shared, engine, buffers, blocks, bi, retries,
                                        err, result, hist>>
           ELSE /\ pc' = [pc EXCEPT ![e] = "rd_loop"]
                /\ loc' = [loc EXCEPT ![e] = [NoLoc EXCEPT !.a = address,
                                                           !.v1 = r_lock[index]]]
                /\ UNCHANGED <<shared, engine, buffers, user, hist>>

\* ReadWord, in the loop: with the lock bit in v1 sample again, else load
\* the word.
ReadLoad(e) ==
    /\ pc[e] = "rd_loop"
    /\ IF ReadLockIsLocked(loc[e].v1)
       THEN /\ loc' = [loc EXCEPT ![e].v1 = r_lock[GetLockIndex(loc[e].a)]]
            /\ pc' = pc
       ELSE /\ loc' = [loc EXCEPT ![e].d = mem[loc[e].a]]
            /\ pc' = [pc EXCEPT ![e] = "rd_v2"]
    /\ UNCHANGED <<shared, engine, buffers, user, hist>>

\* Mutant of ReadSampleAccepted: the second sample is not looked at.
ReadSampleAlwaysAccepted(v1, v2) == TRUE

\* ReadWord: "if (v2 == v1) break;" ends the double-sample loop
ReadSampleAccepted(v1, v2) == v2 = v1

\* ReadWord: the second sample v2; equal to v1 the read is accepted, the
\* stripe entered in the read set, and Extend called if v1 > version_.
ReadAccept(e) ==
    LET index == GetLockIndex(loc[e].a)
        v2    == r_lock[index]
    IN  /\ pc[e] = "rd_v2"
        /\ IF ~ReadSampleAccepted(loc[e].v1, v2)
           THEN /\ loc' = [loc EXCEPT ![e].v1 = v2]
                /\ pc' = [pc EXCEPT ![e] = "rd_loop"]
                /\ UNCHANGED <<read_set_, user>>
           ELSE IF ~PooledListContains(read_set_[e], index) /\ PooledListFull(read_set_[e])
           THEN /\ read_set_' = [read_set_ EXCEPT ![e] = PooledListOverflow(@)]
                /\ ThrowFatal(e)
                /\ UNCHANGED <<blocks, bi, ip, vals, retries, result>>
           ELSE /\ read_set_' = [read_set_ EXCEPT
                                    ![e] = PooledListGetOrCreate(@, ReadSetEntry(index))]
                /\ IF NeedsExtend(loc[e].v1, version_[e])
                   THEN /\ pc' = [pc EXCEPT ![e] = "ext"]
                        /\ loc' = [loc EXCEPT ![e].ctx = "rd"]
                        /\ UNCHANGED user
                   ELSE /\ ReturnRead(e, loc[e].a, loc[e].d, FALSE)
                        /\ UNCHANGED <<blocks, bi, retries, err, result>>
        /\ UNCHANGED <<shared, engine, write_set_, write_data_, hist>>

\* ReadWord, back from Extend: on failure Rollback and throw, else return.
ReadExtended(e) ==
    /\ pc[e] = "vrs_ret"
    /\ loc[e].ctx = "rd"
    /\ IF loc[e].ok
       THEN /\ version_' = [version_ EXCEPT ![e] = loc[e].nv]
            /\ ReturnRead(e, loc[e].a, loc[e].d, FALSE)
            /\ UNCHANGED <<buffers, err>>
       ELSE /\ BeginRollback(e, "Read inconsistent state")
            /\ UNCHANGED <<version_, ip, vals>>
    /\ UNCHANGED <<shared, state_, cm_ts_, cm_backoff_, blocks, bi, retries, result, hist>>

\* ----------------------------------------------------------- WriteWord

\* WriteWord is called.  On a stripe this engine write-owns the entry of the
\* address is created and Set, or Extended; else the acquire loop starts.
CallWriteWord(e) ==
    /\ pc[e] = "user"
    /\ ip[e] <= Len(CurBlock(e).ops)
    /\ CurOp(e).t = "w"
    /\ LET address == CurOp(e).a
           index   == GetLockIndex(address)
           data    == WriteValue(CurOp(e), ValsOf(vals[e]))
           mask    == CurOp(e).m
           entry   == PooledListGet(write_data_[e], address)
       IN  IF WriteLockIsLockedBy(w_lock[index], e)
           THEN IF entry = 0 /\ PooledListFull(write_data_[e])
                THEN /\ write_data_' = [write_data_ EXCEPT ![e] = PooledListOverflow(@)]
                     /\ ThrowFatal(e)
                     /\ UNCHANGED <<read_set_, write_set_, ip>>
                ELSE /\ write_data_' = [write_data_ EXCEPT ![e] =
                            IF entry = 0
                            THEN PooledListCreate(@, WriteDataSet(address, data, mask))
                            ELSE [@ EXCEPT ![entry] = WriteDataExtend(@, data, mask)]]
                     /\ ReturnWrite(e)
                     /\ UNCHANGED <<read_set_, write_set_, err>>
           ELSE /\ pc' = [pc EXCEPT ![e] = "ww_loop"]
                /\ loc' = [loc EXCEPT ![e] = [NoLoc EXCEPT !.a = address, !.d = data,
                                                           !.m = mask]]
                /\ UNCHANGED <<buffers, ip, err>>
    /\ UNCHANGED <<shared, engine, blocks, bi, vals, retries, result, hist>>

\* WriteWord, acquire loop: if (lock.w_lock.IsLocked()) { if (CmShouldAbort)
\* { Rollback(); throw } continue; }.  CmShouldAbort is true at once for an
\* engine with no timestamp and goes on to look at the owner otherwise.
WriteIsLocked(e) ==
    /\ pc[e] = "ww_loop"
    /\ IF WriteLockIsLocked(w_lock[GetLockIndex(loc[e].a)])
       THEN IF cm_ts_[e] = kMaxVersion
            THEN BeginRollback(e, "Stuff")
            ELSE /\ pc' = [pc EXCEPT ![e] = "cm_owner"]
                 /\ UNCHANGED <<loc, buffers, err>>
       ELSE /\ pc' = [pc EXCEPT ![e] = "ww_try"]
            /\ UNCHANGED <<loc, buffers, err>>
    /\ UNCHANGED <<shared, engine, blocks, bi, ip, vals, retries, result, hist>>

\* CmShouldAbort: TransactionEngine* owner = lock.GetOwner();
CmLoadOwner(e) ==
    /\ pc[e] = "cm_owner"
    /\ LET owner == WriteLockGetOwner(w_lock[GetLockIndex(loc[e].a)])
       IN  IF owner # 0
           THEN /\ loc' = [loc EXCEPT ![e].owner = owner]
                /\ pc' = [pc EXCEPT ![e] = "cm_ts"]
           ELSE /\ pc' = [pc EXCEPT ![e] = "ww_loop"]
                /\ loc' = loc
    /\ UNCHANGED <<shared, engine, buffers, user, hist>>

\* Mutant of CmCompare: the requester yields to the later timestamp.
CmCompareLaterWins(e) ==
    /\ pc[e] = "cm_ts"
    /\ IF cm_ts_[loc[e].owner] > cm_ts_[e]
       THEN BeginRollback(e, "Stuff")
       ELSE /\ pc' = [pc EXCEPT ![e] = "ww_loop"]
            /\ loc' = [loc EXCEPT ![e].owner = 0]
            /\ UNCHANGED <<buffers, err>>
    /\ UNCHANGED <<shared, engine, blocks, bi, ip, vals, retries, result, hist>>

\* Mutant of CmCompare: an engine with a timestamp never yields.
CmCompareNeverYields(e) ==
    /\ pc[e] = "cm_ts"
    /\ pc' = [pc EXCEPT ![e] = "ww_loop"]
    /\ loc' = [loc EXCEPT ![e].owner = 0]
    /\ UNCHANGED <<buffers, err>>
    /\ UNCHANGED <<shared, engine, blocks, bi, ip, vals, retries, result, hist>>

\* CmShouldAbort: if (owner->cm_ts_.load() < ts) return true;
\* owner->MarkAbort() (empty); return false.
CmCompare(e) ==
    /\ pc[e] = "cm_ts"
    /\ IF cm_ts_[loc[e].owner] < cm_ts_[e]
       THEN BeginRollback(e, "Stuff")
       ELSE /\ pc' = [pc EXCEPT ![e] = "ww_loop"]
            /\ loc' = [loc EXCEPT ![e].owner = 0]
            /\ UNCHANGED <<buffers, err>>
    /\ UNCHANGED <<shared, engine, blocks, bi, ip, vals, retries, result, hist>>

\* WriteWord: if (lock.w_lock.TryLock(this)) { write_set_.Create(index);
\* entry = write_data_.Create(address); break; }
WriteTryLock(e) ==
    LET address == loc[e].a
        index   == GetLockIndex(address)
    IN  /\ pc[e] = "ww_try"
        /\ IF w_lock[index] # 0
           THEN /\ pc' = [pc EXCEPT ![e] = "ww_loop"]
                /\ UNCHANGED <<w_lock, write_set_, write_data_, loc, err>>
           ELSE IF PooledListFull(write_set_[e])
           THEN /\ w_lock' = [w_lock EXCEPT ![index] = e]
                /\ write_set_' = [write_set_ EXCEPT ![e] = PooledListOverflow(@)]
                /\ ThrowFatal(e)
                /\ UNCHANGED write_data_
           ELSE IF PooledListFull(write_data_[e])
           THEN /\ w_lock' = [w_lock EXCEPT ![index] = e]
                /\ write_set_' = [write_set_ EXCEPT
                                     ![e] = PooledListCreate(@, WriteSetEntry(index))]
                /\ write_data_' = [write_data_ EXCEPT ![e] = PooledListOverflow(@)]
                /\ ThrowFatal(e)
           ELSE /\ w_lock' = [w_lock EXCEPT ![index] = e]
                /\ write_set_' = [write_set_ EXCEPT
                                     ![e] = PooledListCreate(@, WriteSetEntry(index))]
                /\ write_data_' = [write_data_ EXCEPT
                                      ![e] = PooledListCreate(@, WriteDataSet(address, 0, 0))]
                /\ pc' = [pc EXCEPT ![e] = "ww_chk"]
                /\ UNCHANGED <<loc, err>>
        /\ UNCHANGED <<mem, r_lock, global_version, greedy_version, engine, read_set_,
                       blocks, bi, ip, vals, retries, result, hist>>

\* WriteWord, the stripe acquired: the data (merged with *address for a
\* partial mask) is Set in the entry just created; CmOnWrite.
FinishWrite(e) ==
    LET address == loc[e].a
        entry   == PooledListGet(write_data_[e], address)
        data    == MergePartial(loc[e].d, loc[e].m, mem[address])
    IN  /\ write_data_' = [write_data_ EXCEPT
                              ![e][entry] = WriteDataSet(address, data, loc[e].m)]
        /\ IF CmWantsTimestamp(cm_ts_[e], Len(write_set_[e]))
           THEN /\ cm_ts_' = [cm_ts_ EXCEPT ![e] = greedy_version]
                /\ greedy_version' = greedy_version + 1
           ELSE UNCHANGED <<cm_ts_, greedy_version>>
        /\ ReturnWrite(e)

\* WriteWord: if (lock.r_lock.Get() > version_) Extend, else finish.
WriteCheck(e) ==
    /\ pc[e] = "ww_chk"
    /\ IF NeedsExtend(r_lock[GetLockIndex(loc[e].a)], version_[e])
       THEN /\ pc' = [pc EXCEPT ![e] = "ext"]
            /\ loc' = [loc EXCEPT ![e].ctx = "wr"]
            /\ UNCHANGED <<write_data_, cm_ts_, greedy_version, ip>>
       ELSE FinishWrite(e)
    /\ UNCHANGED <<mem, r_lock, w_lock, global_version, state_, version_, cm_backoff_,
                   read_set_, write_set_, blocks, bi, vals, retries, err, result, hist>>

\* WriteWord, back from Extend: on failure Rollback and throw, else finish.
WriteExtended(e) ==
    /\ pc[e] = "vrs_ret"
    /\ loc[e].ctx = "wr"
    /\ IF loc[e].ok
       THEN /\ version_' = [version_ EXCEPT ![e] = loc[e].nv]
            /\ FinishWrite(e)
            /\ UNCHANGED <<read_set_, write_set_, err>>
       ELSE /\ BeginRollback(e, "Inconsistent state after write")
            /\ UNCHANGED <<version_, cm_ts_, greedy_version, ip>>
    /\ UNCHANGED <<mem, r_lock, w_lock, global_version, state_, cm_backoff_, blocks, bi,
                   vals, retries, result, hist>>

\* -------------------------------------------------------------- Commit

\* Mutant of CommitEmpty: the global version is incremented before the
\* write set is found empty.
CommitEmptyIncrements(e) ==
    /\ global_version' = global_version + 1
    /\ ClearBuffers(e)
    /\ state_' = [state_ EXCEPT ![e] = "INITIALIZED"]
    /\ FinishBlock(e, "ok")
    /\ UNCHANGED <<mem, r_lock, w_lock, greedy_version, version_, cm_ts_, cm_backoff_, hist>>

\* Commit of a read-write transaction with write_set_.Empty(): the buffers
\* are cleared and the state set, nothing else
CommitEmpty(e) ==
    /\ ClearBuffers(e)
    /\ state_' = [state_ EXCEPT ![e] = "INITIALIZED"]
    /\ FinishBlock(e, "ok")
    /\ UNCHANGED <<shared, version_, cm_ts_, cm_backoff_, hist>>

\* Commit is called (the function returned).  A read-only transaction only
\* sets the state; a read-write one with an empty write set clears the
\* buffers and sets the state; else the lock-bit loop starts.
CallCommit(e) ==
    /\ pc[e] = "user"
    /\ ip[e] > Len(CurBlock(e).ops)
    /\ IF ~IsRunning(state_[e]) THEN AssertFailed
       ELSE IF state_[e] = "READ_ONLY_RUNNING"
       THEN /\ state_' = [state_ EXCEPT ![e] = "INITIALIZED"]
            /\ FinishBlock(e, "ok")
            /\ UNCHANGED <<shared, version_, cm_ts_, cm_backoff_, buffers, hist>>
       ELSE IF write_set_[e] = << >>
       THEN CommitEmpty(e)
       ELSE /\ pc' = [pc EXCEPT ![e] = "c_lock"]
            /\ loc' = [loc EXCEPT ![e] = [NoLoc EXCEPT !.i = 1]]
            /\ UNCHANGED <<shared, engine, buffers, user, hist>>

\* Commit: lock_table_[entry.GetIndex()].r_lock.Lock() for one entry
CommitLock(e) ==
    /\ pc[e] = "c_lock"
    /\ r_lock' = [r_lock EXCEPT ![write_set_[e][loc[e].i].key] = ReadLockLock(@)]
    /\ IF loc[e].i = Len(write_set_[e])
       THEN /\ pc' = [pc EXCEPT ![e] = "c_inc"]
            /\ loc' = [loc EXCEPT ![e].i = 0]
       ELSE /\ loc' = [loc EXCEPT ![e].i = @ + 1]
            /\ pc' = pc
    /\ UNCHANGED <<mem, w_lock, global_version, greedy_version, engine, buffers, user, hist>>

\* The commit is past validation (or needed none): its write data will reach
\* target memory as version nv.
LogCommit(log, nv, data) == [log EXCEPT ![nv] = data]

\* Commit: new_version = GetIncGlobalVersion(); validation is needed if
\* new_version > version_ + 1.
CommitIncrement(e) ==
    LET new_version == GetIncGlobalVersion(global_version)
    IN  /\ pc[e] = "c_inc"
        /\ global_version' = new_version
        /\ IF CommitNeedsValidation(new_version, version_[e])
           THEN /\ EnterValidate(e, [loc[e] EXCEPT !.nv = new_version, !.ctx = "commit"])
                /\ clog' = Append(clog, << >>)
           ELSE /\ pc' = [pc EXCEPT ![e] = "c_data"]
                /\ loc' = [loc EXCEPT ![e] = [@ EXCEPT !.nv = new_version, !.i = 1]]
                /\ clog' = Append(clog, write_data_[e])
        /\ UNCHANGED <<mem, r_lock, w_lock, greedy_version, engine, buffers, user, wrote,
                       start0, slept_ns>>

\* Mutant of CommitValidated: the first CommitData is done before the result
\* of the validation is looked at.
CommitValidatedStoreFirst(e) ==
    /\ pc[e] = "vrs_ret"
    /\ loc[e].ctx = "commit"
    /\ mem' = [mem EXCEPT ![write_data_[e][1].key] = CommitData(@, write_data_[e][1])]
    /\ IF loc[e].ok
       THEN /\ pc' = [pc EXCEPT ![e] = "c_data"]
            /\ clog' = LogCommit(clog, loc[e].nv, write_data_[e])
       ELSE /\ pc' = [pc EXCEPT ![e] = "c_unlock"]
            /\ clog' = clog
    /\ loc' = [loc EXCEPT ![e].i = 1]
    /\ UNCHANGED <<r_lock, w_lock, global_version, greedy_version, engine, buffers, user,
                   wrote, start0, slept_ns>>

\* Commit, back from ValidateReadSet
CommitValidated(e) ==
    /\ pc[e] = "vrs_ret"
    /\ loc[e].ctx = "commit"
    /\ IF loc[e].ok
       THEN /\ pc' = [pc EXCEPT ![e] = "c_data"]
            /\ clog' = LogCommit(clog, loc[e].nv, write_data_[e])
       ELSE /\ pc' = [pc EXCEPT ![e] = "c_unlock"]
            /\ clog' = clog
    /\ loc' = [loc EXCEPT ![e].i = 1]
    /\ UNCHANGED <<shared, engine, buffers, user, wrote, start0, slept_ns>>

\* Mutant of CommitUnlockFailed: the lock bits are left set.
CommitFailedKeepBits(e) ==
    /\ pc[e] = "c_unlock"
    /\ IF loc[e].i = Len(write_set_[e])
       THEN BeginRollback(e, "Failed to validate read set")
       ELSE /\ loc' = [loc EXCEPT ![e].i = @ + 1]
            /\ UNCHANGED <<pc, buffers, err>>
    /\ UNCHANGED <<shared, engine, blocks, bi, ip, vals, retries, result, hist>>

\* Commit, validation failed: r_lock.Unlock() for one entry; after the last
\* one Rollback() (the write set is not empty here).
CommitUnlockFailed(e) ==
    /\ pc[e] = "c_unlock"
    /\ r_lock' = [r_lock EXCEPT ![write_set_[e][loc[e].i].key] = ReadLockUnlock(@)]
    /\ IF loc[e].i = Len(write_set_[e])
       THEN BeginRollback(e, "Failed to validate read set")
       ELSE /\ loc' = [loc EXCEPT ![e].i = @ + 1]
            /\ UNCHANGED <<pc, buffers, err>>
    /\ UNCHANGED <<mem, w_lock, global_version, greedy_version, engine, blocks, bi, ip,
                   vals, retries, result, hist>>

\* Commit: CommitData(data) for one write-data entry
CommitStore(e) ==
    LET entry == write_data_[e][loc[e].i]
    IN  /\ pc[e] = "c_data"
        /\ mem' = [mem EXCEPT ![entry.key] = CommitData(@, entry)]
        /\ wrote' = [wrote EXCEPT ![e] = @ \cup {entry.key}]
        /\ IF loc[e].i = Len(write_data_[e])
           THEN /\ pc' = [pc EXCEPT ![e] = "c_pub_r"]
                /\ loc' = [loc EXCEPT ![e].i = 1]
           ELSE /\ loc' = [loc EXCEPT ![e].i = @ + 1]
                /\ pc' = pc
        /\ UNCHANGED <<r_lock, w_lock, global_version, greedy_version, engine, buffers,
                       user, clog, start0, slept_ns>>

\* Commit: lock.r_lock.Unlock(new_version) for one write-set entry
CommitPublish(e) ==
    /\ pc[e] = "c_pub_r"
    /\ r_lock' = [r_lock EXCEPT ![write_set_[e][loc[e].i].key] =
                                    ReadLockUnlockTo(@, loc[e].nv)]
    /\ pc' = [pc EXCEPT ![e] = "c_pub_w"]
    /\ UNCHANGED <<mem, w_lock, global_version, greedy_version, engine, buffers, loc,
                   user, hist>>

\* Commit: lock.w_lock.Unlock() for that entry; after the last one the
\* buffers are cleared, the state is INITIALIZED and Atomic returns.
CommitRelease(e) ==
    /\ pc[e] = "c_pub_w"
    /\ w_lock' = [w_lock EXCEPT ![write_set_[e][loc[e].i].key] = 0]
    /\ IF loc[e].i = Len(write_set_[e])
       THEN /\ ClearBuffers(e)
            /\ state_' = [state_ EXCEPT ![e] = "INITIALIZED"]
            /\ FinishBlock(e, "ok")
       ELSE /\ loc' = [loc EXCEPT ![e].i = @ + 1]
            /\ pc' = [pc EXCEPT ![e] = "c_pub_r"]
            /\ UNCHANGED <<buffers, state_, user>>
    /\ UNCHANGED <<mem, r_lock, global_version, greedy_version, version_, cm_ts_,
                   cm_backoff_, hist>>

\* ------------------------------------------------------ specifications

Step(e) ==
    \/ ThreadInit(e)
    \/ AtomicBegin(e)
    \/ Restart(e)
    \/ CallReadWord(e)
    \/ ReadLoad(e)
    \/ ReadAccept(e)
    \/ ReadExtended(e)
    \/ CallWriteWord(e)
    \/ WriteIsLocked(e)
    \/ WriteTryLock(e)
    \/ WriteCheck(e)
    \/ WriteExtended(e)
    \/ Extend(e)
    \/ ValidateSample(e)
    \/ ValidateCompare(e)
    \/ RollbackUnlock(e)
    \/ CallCommit(e)
    \/ CommitLock(e)
    \/ CommitIncrement(e)
    \/ CommitValidated(e)
    \/ CommitUnlockFailed(e)
    \/ CommitStore(e)
    \/ CommitPublish(e)
    \/ CommitRelease(e)
    \/ UserThrow(e)
    \/ NestedAtomic(e)
    \/ ThreadInitAgain(e)
    \/ CallEnd(e)
    \/ EndUnlock(e)

Next == \E e \in Engines : Step(e)

\* The blocks a thread may be given.
IsoBlocks ==
    { Block("rw", << OpR(8), OpW(16, 1, 2, AllOnes) >>),
      Block("rw", << OpR(16), OpW(8, 1, 1, AllOnes) >>),
      Block("rw", << OpR(8), OpW(8, 1, 1, AllOnes) >>),
      Block("rw", << OpW(8, 0, 3, AllOnes), OpW(16, 0, 3, AllOnes) >>),
      Transfer(8, 16, 1),
      Block("rw", << OpW(4104, 0, 2, AllOnes), OpR(4104) >>),
      Block("rw", << OpW(8, 0, 2, 2), OpR(8), OpW(8, 0, 1, 1) >>),
      Block("rw", << OpW(8, 0, 3, AllOnes), OpR(4104) >>),
      Block("rw", << OpW(16, 0, 0, AllOnes), OpThrow >>),
      Block("rw", << OpW(24, 0, 1, AllOnes), OpW(24, 0, 2, AllOnes), OpR(8) >>),
      Block("rw", << OpR(8), OpAtomic, OpW(16, 1, 1, AllOnes), OpRet >>),
      Block("rw", << OpW(8, 0, 2, AllOnes), OpInit, OpAtomicRead, OpR(16), OpRet >>),
      Block("ro", << OpAtomic, OpW(16, 0, 3, AllOnes), OpRet >>),
      Block("ro", << OpR(8), OpAtomicRead, OpR(8), OpRet >>),
      Block("ro", << OpR(8), OpR(8) >>),
      Block("ro", << OpR(8), OpR(16) >>) }

\* Two threads, each running one block.
Init == \E bl \in [Engines -> {<<b>> : b \in IsoBlocks}] : InitWith(bl)

Spec == Init /\ [][Next]_vars

\* ---------------------------------------------- one thread, two blocks

\* What a single thread does on its way through blocks that meet no other
\* thread: no Extend, no validation, no rollback.
SingleStep(e) ==
    \/ ThreadInit(e)
    \/ AtomicBegin(e)
    \/ CallReadWord(e)
    \/ ReadLoad(e)
    \/ ReadAccept(e)
    \/ CallWriteWord(e)
    \/ WriteIsLocked(e)
    \/ WriteTryLock(e)
    \/ WriteCheck(e)
    \/ CallCommit(e)
    \/ CommitLock(e)
    \/ CommitIncrement(e)
    \/ CommitStore(e)
    \/ CommitPublish(e)
    \/ CommitRelease(e)
    \/ UserThrow(e)
    \/ NestedAtomic(e)
    \/ ThreadInitAgain(e)
    \/ CallEnd(e)
    \/ EndUnlock(e)

NextSingle == SingleStep(1)

\* Thread 1 runs two blocks one after the other, thread 2 never starts.
InitSingle ==
    \E b1 \in IsoBlocks, b2 \in IsoBlocks :
        InitWith([e \in Engines |-> IF e = 1 THEN <<b1, b2>> ELSE << >>])

SpecSingle == InitSingle /\ [][NextSingle]_vars

\* ------------------------------------------------------ the hammer test

\* Transfers the hammer threads begin, all threads together.
MaxBlocks == 2

\* The counters of the hammer: 8 and 4104 share a stripe.
Counters == {8, 16, 4104}

Amounts == {1}

HammerBlocks ==
    {Transfer(a, b, k) : <<a, b, k>> \in
        {t \in Counters \X Counters \X Amounts : t[1] # t[2]}}

\* HammerCorrectness, the thread's loop: two counters and an amount are
\* drawn and Atomic is called with the transfer.
HammerBegun(e) ==
    Len(result[e]) + (IF pc[e] \in {"start", "idle", "aborted"} THEN 0 ELSE 1)

HammerBegin(e) ==
    /\ pc[e] = "idle"
    /\ HammerBegun(1) + HammerBegun(2) < MaxBlocks
    /\ \E b \in HammerBlocks :
          /\ blocks' = [blocks EXCEPT ![e] = <<b>>]
          /\ bi' = [bi EXCEPT ![e] = 1]
          /\ EnterAtomic(e, b)

\* A transfer writes every word it has read and any two transfers write a
\* common stripe, so no other commit falls between the last WriteWord of a
\* transfer and its Commit: Commit never has to validate here.
HammerStep(e) ==
    \/ ThreadInit(e)
    \/ HammerBegin(e)
    \/ Restart(e)
    \/ CallReadWord(e)
    \/ ReadLoad(e)
    \/ ReadAccept(e)
    \/ ReadExtended(e)
    \/ CallWriteWord(e)
    \/ WriteIsLocked(e)
    \/ WriteTryLock(e)
    \/ WriteCheck(e)
    \/ WriteExtended(e)
    \/ Extend(e)
    \/ ValidateSample(e)
    \/ ValidateCompare(e)
    \/ RollbackUnlock(e)
    \/ CallCommit(e)
    \/ CommitLock(e)
    \/ CommitIncrement(e)
    \/ CommitStore(e)
    \/ CommitPublish(e)
    \/ CommitRelease(e)

NextHammer == \E e \in Engines : HammerStep(e)

InitHammer == InitWith([e \in Engines |-> << >>])

SpecHammer == InitHammer /\ [][NextHammer]_vars

\* -------------------------------------------- masked writes to one word

\* WriteWord calls a mask block makes on the word at 8.
MaskWrites == 2

MaskData == {0, 1, AllOnes}

MaskWriteOps == {OpW(8, 0, d, m) : <<d, m>> \in MaskData \X Words}

\* A block of MaskWrites masked writes to the word at 8; with the write of
\* no bits to 4104 in front the stripe is owned before the first of them.
MaskBlocks ==
    {Block("rw", pre \o ws) : <<pre, ws>> \in
        {<< >>, << OpW(4104, 0, 0, 0) >>} \X [1 .. MaskWrites -> MaskWriteOps]}

MaskStep(e) ==
    \/ ThreadInit(e)
    \/ AtomicBegin(e)
    \/ CallWriteWord(e)
    \/ WriteIsLocked(e)
    \/ WriteTryLock(e)
    \/ WriteCheck(e)
    \/ CallCommit(e)
    \/ CommitLock(e)
    \/ CommitIncrement(e)
    \/ CommitStore(e)
    \/ CommitPublish(e)
    \/ CommitRelease(e)

NextMask == MaskStep(1)

InitMask ==
    \E b \in MaskBlocks : InitWith([e \in Engines |-> IF e = 1 THEN <<b>> ELSE << >>])

SpecMask == InitMask /\ [][NextMask]_vars

\* ------------------------------------- blocks that fill a pooled list

\* Two words more than a pooled list has slots, each on a stripe of its own,
\* and 4104, which shares the stripe of 8.
OverflowAddrs == {8 * i : i \in 1 .. kPoolEntries + 2} \cup {4104}

WritesOf(n) == [i \in 1 .. n |-> OpW(8 * i, 0, 1, AllOnes)]

ReadsOf(n) == [i \in 1 .. n |-> OpR(8 * i)]

\* In order: as many writes as the lists hold; one stripe more than the
\* write set holds; one address more than the write data holds, on a stripe
\* already owned; the same met while a stripe is acquired; one stripe more
\* than the read set holds, read-only and after a write; as many reads as
\* the read set holds.
OverflowBlocks ==
    { Block("rw", WritesOf(kPoolEntries)),
      Block("rw", WritesOf(kPoolEntries + 1)),
      Block("rw", WritesOf(kPoolEntries) \o << OpW(4104, 0, 1, AllOnes) >>),
      Block("rw", << OpW(4104, 0, 1, AllOnes) >> \o WritesOf(kPoolEntries)),
      Block("ro", ReadsOf(kPoolEntries + 1)),
      Block("rw", << OpW(8 * (kPoolEntries + 2), 0, 1, AllOnes) >>
                      \o ReadsOf(kPoolEntries + 1)),
      Block("ro", ReadsOf(kPoolEntries)) }

OverflowStep(e) ==
    \/ ThreadInit(e)
    \/ AtomicBegin(e)
    \/ CallReadWord(e)
    \/ ReadLoad(e)
    \/ ReadAccept(e)
    \/ CallWriteWord(e)
    \/ WriteIsLocked(e)
    \/ WriteTryLock(e)
    \/ WriteCheck(e)
    \/ CallCommit(e)
    \/ CommitLock(e)
    \/ CommitIncrement(e)
    \/ CommitStore(e)
    \/ CommitPublish(e)
    \/ CommitRelease(e)
    \/ CallEnd(e)
    \/ EndUnlock(e)

NextOverflow == OverflowStep(1)

\* Thread 1 runs one block, thread 2 never starts.
InitOverflow ==
    \E b \in OverflowBlocks :
        InitOn([a \in OverflowAddrs |-> 0], {GetLockIndex(a) : a \in OverflowAddrs},
               [e \in Engines |-> IF e = 1 THEN <<b>> ELSE << >>])

SpecOverflow == InitOverflow /\ [][NextOverflow]_vars

\* ------------------------------ blocks long enough to claim a timestamp

\* As many words as two transactions need to reach kGreedyWrites stripes
\* each, every word on a stripe of its own.
GreedyAddrs == {8 * i : i \in 1 .. 2 * kGreedyWrites}

\* n writes, to the words 8 * lo, 8 * (lo + 1), ...
WritesFrom(lo, n) == [i \in 1 .. n |-> OpW(8 * (lo + i - 1), 0, 1, AllOnes)]

\* Thread 1 writes kGreedyWrites stripes and then the first stripe of thread
\* 2, and after that runs a short block on that stripe.  Thread 2 writes its
\* own kGreedyWrites stripes and then the first stripe of thread 1, or only
\* the two contended stripes.
GreedyBlocks ==
    LET first  == 8
        second == 8 * (kGreedyWrites + 1)
        long1  == Block("rw", WritesFrom(1, kGreedyWrites) \o << OpW(second, 0, 1, AllOnes) >>)
        short1 == Block("rw", << OpW(second, 0, 2, AllOnes) >>)
        long2  == Block("rw", WritesFrom(kGreedyWrites + 1, kGreedyWrites)
                                  \o << OpW(first, 0, 1, AllOnes) >>)
        short2 == Block("rw", << OpW(second, 0, 3, AllOnes), OpW(first, 0, 3, AllOnes) >>)
    IN  { [e \in Engines |-> IF e = 1 THEN << long1, short1 >> ELSE << b >>] :
              b \in {long2, short2} }

GreedyStep(e) ==
    \/ ThreadInit(e)
    \/ AtomicBegin(e)
    \/ Restart(e)
    \/ CallWriteWord(e)
    \/ WriteIsLocked(e)
    \/ CmLoadOwner(e)
    \/ CmCompare(e)
    \/ WriteTryLock(e)
    \/ WriteCheck(e)
    \/ WriteExtended(e)
    \/ Extend(e)
    \/ RollbackUnlock(e)
    \/ CallCommit(e)
    \/ CommitLock(e)
    \/ CommitIncrement(e)
    \/ CommitStore(e)
    \/ CommitPublish(e)
    \/ CommitRelease(e)

NextGreedy == \E e \in Engines : GreedyStep(e)

InitGreedy ==
    \E bl \in GreedyBlocks :
        InitOn([a \in GreedyAddrs |-> 0], {GetLockIndex(a) : a \in GreedyAddrs}, bl)

SpecGreedy == InitGreedy /\ [][NextGreedy]_vars

\* Every thread is scheduled again and again: a thread that can take a step
\* takes one.
SpecGreedyFair == SpecGreedy /\ \A e \in Engines : WF_vars(GreedyStep(e))

\* --------------------------------------- the retry loop without a bound

\* Atomic's while (true): the wrapper caught a retry-eligible error and runs
\* Begin and the function again, however often that has happened before.  The
\* runs kept are those in which rng_.Next() & 0xF draws 0, so that the
\* backoff slept for stays 0 ns and the rounds are alike.
RetryAgain(e) ==
    /\ pc[e] = "caught"
    /\ ShouldRetry(err[e])
    /\ BeginAllowed(e, CurBlock(e).kind)
    /\ BeginTx(e, CurBlock(e).kind)
    /\ cm_backoff_'[e] = 0
    /\ pc' = [pc EXCEPT ![e] = "user"]
    /\ ip' = [ip EXCEPT ![e] = NextIp(CurBlock(e).ops, 1, << >>)]
    /\ vals' = [vals EXCEPT ![e] = << >>]
    /\ err' = [err EXCEPT ![e] = "none"]
    /\ UNCHANGED <<shared, cm_ts_, buffers, loc, blocks, bi, retries, result, clog>>

\* Thread 1 writes the words 8 and 16, thread 2 the same two words in the
\* other order or in the same.
RetryBlocks ==
    LET fwd == Block("rw", << OpW(8, 0, 1, AllOnes), OpW(16, 0, 1, AllOnes) >>)
        bwd == Block("rw", << OpW(16, 0, 2, AllOnes), OpW(8, 0, 2, AllOnes) >>)
        same == Block("rw", << OpW(8, 0, 2, AllOnes), OpW(16, 0, 2, AllOnes) >>)
    IN  { [e \in Engines |-> IF e = 1 THEN << fwd >> ELSE << b >>] : b \in {bwd, same} }

RetryStep(e) ==
    \/ ThreadInit(e)
    \/ AtomicBegin(e)
    \/ RetryAgain(e)
    \/ CallWriteWord(e)
    \/ WriteIsLocked(e)
    \/ WriteTryLock(e)
    \/ WriteCheck(e)
    \/ WriteExtended(e)
    \/ Extend(e)
    \/ RollbackUnlock(e)
    \/ CallCommit(e)
    \/ CommitLock(e)
    \/ CommitIncrement(e)
    \/ CommitStore(e)
    \/ CommitPublish(e)
    \/ CommitRelease(e)

NextRetry == \E e \in Engines : RetryStep(e)

InitRetry == \E bl \in RetryBlocks : InitWith(bl)

\* Every thread is scheduled again and again.
SpecRetry == InitRetry /\ [][NextRetry]_vars /\ \A e \in Engines : WF_vars(RetryStep(e))

\* ------------------------------------- restarts late in a thread's life

\* The restarts a thread has been through before, at most
MaxRounds == 12

BackoffStep(e) ==
    \/ ThreadInit(e)
    \/ AtomicBegin(e)
    \/ Restart(e)
    \/ CallWriteWord(e)
    \/ WriteIsLocked(e)
    \/ WriteTryLock(e)
    \/ WriteCheck(e)
    \/ WriteExtended(e)
    \/ Extend(e)
    \/ RollbackUnlock(e)
    \/ CallCommit(e)
    \/ CommitLock(e)
    \/ CommitIncrement(e)
    \/ CommitStore(e)
    \/ CommitPublish(e)
    \/ CommitRelease(e)

NextBackoff == \E e \in Engines : BackoffStep(e)

\* The blocks of the retry loop above; thread 1 has been through up to
\* MaxRounds restarts in earlier transactions.
InitBackoff ==
    \E bl \in RetryBlocks, k \in 0 .. MaxRounds :
        InitAfter(InitMem, Stripes, bl, [e \in Engines |-> IF e = 1 THEN k ELSE 0])

SpecBackoff == InitBackoff /\ [][NextBackoff]_vars

\* ------------------------------------- WriteWord inside AtomicRead

\* Functions handed to AtomicRead that call WriteWord (which looks at no
\* state), with and without a read before it.
ReadOnlyWrites ==
    { Block("ro", << OpW(8, 0, 3, AllOnes) >>),
      Block("ro", << OpR(8), OpW(16, 1, 1, AllOnes) >>) }

\* Thread 1 runs such a block and then one of the others, thread 2 never
\* starts.
InitReadOnlyWrite ==
    \E b1 \in ReadOnlyWrites, b2 \in IsoBlocks :
        InitWith([e \in Engines |-> IF e = 1 THEN <<b1, b2>> ELSE << >>])

SpecReadOnlyWrite == InitReadOnlyWrite /\ [][NextSingle]_vars

\* ================================================================ claims

\* What a block does to memory m when it runs alone from start to end: a
\* read sees memory as the block's earlier writes left it, a write stores
\* the bits of its mask, a nested compatible block is part of the block, an
\* exception thrown out of the block (by the function, or by Atomic called
\* in a read-only block) leaves memory as it was before the block (m0).
RECURSIVE SerialOps(_, _, _, _, _, _)
SerialOps(kind, ops, i, vs, m, m0) ==
    LET j == NextIp(ops, i, vs)
    IN  IF j > Len(ops) THEN m
        ELSE IF ops[j].t = "r"
             THEN SerialOps(kind, ops, j + 1, Append(vs, m[ops[j].a]), m, m0)
        ELSE IF ops[j].t = "w"
             THEN SerialOps(kind, ops, j + 1, vs,
                            [m EXCEPT ![ops[j].a] =
                                BitOr(BitAnd(@, BitNot(ops[j].m)),
                                      BitAnd(WriteValue(ops[j], vs), ops[j].m))],
                            m0)
        ELSE IF ops[j].t = "init" \/ ops[j].t = "atomicread"
                \/ (ops[j].t = "atomic" /\ kind = "rw")
             THEN SerialOps(kind, ops, j + 1, vs, m, m0)
        ELSE m0

SerialExec(b, m) == SerialOps(b.kind, b.ops, 1, << >>, m, m)

\* Every block of every thread has left Atomic / AtomicRead.
AllReturned == \A e \in Engines : pc[e] = "idle" /\ bi[e] > Len(blocks[e])

\* ---- C1

\* C1 (isolation): once the blocks A and B that two engines ran concurrently
\* have both returned, target memory is what running A then B, or B then A,
\* alone from the initial memory leaves.
Isolation ==
    AllReturned =>
        LET A == blocks[1][1]
            B == blocks[2][1]
        IN  mem \in {SerialExec(B, SerialExec(A, InitMem)),
                     SerialExec(A, SerialExec(B, InitMem))}

\* C1 witness: both blocks committed after a restart of one of them, the
\* two serial orders differ, and memory changed.
IsolationWitness ==
    /\ AllReturned
    /\ \A e \in Engines : result[e] = << "ok" >> /\ blocks[e][1].ops[1].t = "r"
    /\ \E e \in Engines : cm_backoff_[e] > 0
    /\ mem # InitMem
    /\ SerialExec(blocks[2][1], SerialExec(blocks[1][1], InitMem))
           # SerialExec(blocks[1][1], SerialExec(blocks[2][1], InitMem))

\* ---- C2

RECURSIVE SumOver(_, _)
SumOver(m, S) ==
    IF S = {} THEN 0
    ELSE LET a == CHOOSE x \in S : TRUE IN m[a] + SumOver(m, S \ {a})

\* No engine is inside a transaction.
Quiescent == \A e \in Engines : pc[e] \in {"start", "idle"}

\* C2 (conservation under transfers): at every quiescent point of the
\* hammer the counters in target memory sum to what they summed to at the
\* start.
Conservation ==
    Quiescent => SumOver(mem, Counters) = SumOver(InitMem, Counters)

\* C2 witness: a quiescent point after both threads have committed
\* transfers that moved something, one of them after a restart.
ConservationWitness ==
    /\ Quiescent
    /\ \A e \in Engines : Len(result[e]) >= 1
    /\ \E e \in Engines : cm_backoff_[e] > 0
    /\ global_version >= 2
    /\ mem # InitMem

\* ---- C3

\* Commit is storing, or has stored, its write data.
Storing(p) == p \in {"c_data", "c_pub_r", "c_pub_w"}

\* C3 (all or nothing): a word of target memory changes only in a step of
\* an engine that is in Commit past validation and has the word in its write
\* data; such a Commit goes on to return normally; and an attempt that is
\* being rolled back, has failed with a retry-eligible error, or is being
\* ended by End has stored nothing to target memory (and after a
\* retry-eligible failure carries no write data into the retry).
AllOrNothing ==
    /\ [][\A a \in Addrs : mem'[a] # mem[a] =>
             \E e \in Engines :
                 /\ pc[e] = "c_data"
                 /\ PooledListContains(write_data_[e], a)]_vars
    /\ [][\A e \in Engines : Storing(pc[e]) =>
             \/ Storing(pc'[e])
             \/ pc'[e] = "aborted"
             \/ /\ pc'[e] = "idle"
                /\ result'[e] = Append(result[e], "ok")]_vars
    /\ [](\A e \in Engines :
             /\ pc[e] \in {"rb", "caught", "end", "c_unlock"} => wrote[e] = {}
             /\ pc[e] = "caught" /\ ShouldRetry(err[e]) => write_data_[e] = << >>)

\* C3 witness: a rollback is under way with a buffered write that differs
\* from what target memory holds.
AllOrNothingWitness ==
    \E e \in Engines :
        /\ pc[e] = "rb"
        /\ \E i \in 1 .. Len(write_data_[e]) :
               CommitData(mem[write_data_[e][i].key], write_data_[e][i])
                   # mem[write_data_[e][i].key]

\* ---- C4

\* Memory with the write data wd of one commit stored
RECURSIVE ApplyData(_, _)
ApplyData(m, wd) ==
    IF wd = << >> THEN m
    ELSE ApplyData([m EXCEPT ![Head(wd).key] = CommitData(@, Head(wd))], Tail(wd))

\* Target memory as of global version k: the initial memory with the
\* commits of versions 1 .. k applied in version order.
RECURSIVE MemoryAsOf(_)
MemoryAsOf(k) ==
    IF k = 0 THEN InitMem ELSE ApplyData(MemoryAsOf(k - 1), clog[k])

\* C4 (consistent view): at every point of every attempt, the values its
\* ReadWord calls returned for stripes it did not own are the contents of
\* those words as of one global version no older than the start version
\* Begin sampled.
ConsistentView ==
    \A e \in Engines :
        \E k \in start0[e] .. Len(clog) :
            \A i \in 1 .. Len(vals[e]) :
                ~vals[e][i].own => vals[e][i].v = MemoryAsOf(k)[vals[e][i].a]

\* C4 witness: an attempt holds a value read before another engine's commit
\* and has since extended its start version past that commit.
ConsistentViewWitness ==
    \E e \in Engines :
        /\ pc[e] = "user"
        /\ version_[e] > start0[e]
        /\ \E i \in 1 .. Len(vals[e]) : ~vals[e][i].own
        /\ mem # InitMem

\* ---- C5

\* C5 (read-only snapshot): within one attempt of a read-only transaction
\* two ReadWord calls on one address that both returned gave the same
\* value; the only error ReadWord raises in the attempt is its retry-eligible
\* one (the other error a read-only attempt can meet is the non-retry one of
\* a nested Atomic).
ReadOnlySnapshot ==
    \A e \in Engines :
        (bi[e] <= Len(blocks[e]) /\ CurBlock(e).kind = "ro") =>
            /\ \A i, j \in 1 .. Len(vals[e]) :
                   vals[e][i].a = vals[e][j].a => vals[e][i].v = vals[e][j].v
            /\ pc[e] = "caught" =>
                   err[e] \in {"Read inconsistent state", IncompatibleError("rw")}

\* C5 witness: a read-only attempt read a word, another engine's commit
\* changed the word, and the second ReadWord on it raised.
ReadOnlySnapshotWitness ==
    \E e \in Engines :
        /\ bi[e] <= Len(blocks[e])
        /\ CurBlock(e).kind = "ro"
        /\ pc[e] = "caught"
        /\ Len(vals[e]) = 1
        /\ CurBlock(e).ops[2].a = vals[e][1].a
        /\ mem[vals[e][1].a] # vals[e][1].v

\* ---- C6

\* Memory after the first n blocks of bs ran alone one after the other
RECURSIVE SerialRun(_, _, _)
SerialRun(bs, n, m) ==
    IF n = 0 THEN m ELSE SerialExec(bs[n], SerialRun(bs, n - 1, m))

\* Every WriteWord of the block has the full mask.
FullMask(b) == \A i \in 1 .. Len(b.ops) : b.ops[i].t = "w" => b.ops[i].m = AllOnes

\* C6 (single-thread correctness): with no other thread running and full
\* masks only, target memory holds, whenever the thread is not in the
\* storing part of a Commit, exactly what its finished blocks leave run one
\* after the other: after a Commit every written word has the last value
\* written to it and every other word is unchanged, and before the Commit
\* of a block none of the block's values is in memory.
SingleThread ==
    \A e \in Engines :
        ( /\ \A x \in Engines \ {e} : pc[x] = "start"
          /\ \A i \in 1 .. Len(blocks[e]) : FullMask(blocks[e][i])
          /\ ~Storing(pc[e]) )
        => mem = SerialRun(blocks[e], bi[e] - 1, InitMem)

\* C6 witness: the thread has committed two blocks, one of which wrote one
\* word twice, and memory changed.
SingleThreadWitness ==
    /\ pc[2] = "start"
    /\ pc[1] = "idle"
    /\ result[1] = << "ok", "ok" >>
    /\ \A i \in 1 .. Len(blocks[1]) : FullMask(blocks[1][i])
    /\ \E i \in 1 .. Len(blocks[1]) :
           LET ops == blocks[1][i].ops
           IN  ops[1].t = "w" /\ ops[2].t = "w" /\ ops[1].a = ops[2].a
    /\ mem # InitMem

\* ---- C7

\* The last WriteWord to address among the first n operations, 0 if none
LastWriteTo(ops, n, address) ==
    LET ws == {j \in 1 .. n : ops[j].t = "w" /\ ops[j].a = address}
    IN  IF ws = {} THEN 0 ELSE CHOOSE j \in ws : \A x \in ws : x <= j

\* C7 (read your writes): a ReadWord of a read-write transaction on a stripe
\* the engine owns returns a value, and that value is what the transaction
\* last wrote to the address (in the bits that write covered) if it wrote to
\* it, and the word in target memory otherwise - whichever address of the
\* stripe was written.
ReadYourWrites ==
    \A e \in Engines :
        ( /\ pc[e] = "user"
          /\ bi[e] <= Len(blocks[e])
          /\ ip[e] <= Len(CurBlock(e).ops)
          /\ CurOp(e).t = "r"
          /\ CurBlock(e).kind = "rw"
          /\ WriteLockIsLockedBy(w_lock[GetLockIndex(CurOp(e).a)], e) )
        => LET ops == CurBlock(e).ops
               j   == LastWriteTo(ops, ip[e] - 1, CurOp(e).a)
           IN  \A r \in OwnedReadValues(e, CurOp(e).a) :
                   /\ r # NoValue
                   /\ IF j = 0 THEN r = mem[CurOp(e).a]
                      ELSE BitAnd(r, ops[j].m)
                              = BitAnd(WriteValue(ops[j], ValsOf(vals[e])), ops[j].m)

\* ---- C8

\* The WriteWord operations of a block on one address, in order
WritesTo(ops, address) ==
    SelectSeq(ops, LAMBDA o : o.t = "w" /\ o.a = address)

\* Bit b of a word that held old after the masked writes ws: the bit of
\* the data of the last write whose mask has b, the old bit if none has.
MaskedBit(ws, b, old) ==
    LET hits == {k \in 1 .. Len(ws) : BitOf(ws[k].m, b) = 1}
    IN  IF hits = {} THEN BitOf(old, b)
        ELSE BitOf(WriteValue(ws[CHOOSE k \in hits : \A x \in hits : x <= k], << >>), b)

\* C8 (masked write): after the Commit of a block of masked writes, every
\* bit of every word is the bit of the data of the last write whose mask
\* contains it, and the bit memory held before if no mask contains it.
MaskedWrite ==
    \A e \in Engines :
        (pc[e] = "idle" /\ result[e] = << "ok" >>) =>
            \A a \in Addrs : \A b \in 0 .. WordBits - 1 :
                BitOf(mem[a], b) = MaskedBit(WritesTo(blocks[e][1].ops, a), b, InitMem[a])

\* C8 witness: a committed block whose first write to the word found the
\* stripe already owned, with two overlapping masks that leave some bit of
\* the word alone, different data under the first mask, and the word
\* changed.
MaskedWriteWitness ==
    /\ pc[1] = "idle"
    /\ result[1] = << "ok" >>
    /\ LET ops == blocks[1][1].ops
       IN  /\ ops[1].a = 4104
           /\ BitAnd(ops[2].m, ops[3].m) # 0
           /\ BitAnd(ops[2].k, ops[2].m) # BitAnd(ops[3].k, ops[2].m)
           /\ \E b \in 0 .. WordBits - 1 :
                  \A k \in 2 .. Len(ops) : BitOf(ops[k].m, b) = 0
    /\ mem[8] # InitMem[8]

\* ---- C9

\* C9 (retry-eligible aborts leave nothing behind): when a retry-eligible
\* error has left the engine, no stripe's write owner is this engine and its
\* read set, write set and write data are empty.
RetryAbortClean ==
    \A e \in Engines :
        (pc[e] = "caught" /\ ShouldRetry(err[e])) =>
            /\ \A x \in Stripes : ~WriteLockIsLockedBy(w_lock[x], e)
            /\ read_set_[e] = << >>
            /\ write_set_[e] = << >>
            /\ write_data_[e] = << >>

\* C9 witness: WriteWord failed its Extend right after it acquired a stripe.
RetryAbortCleanWitness ==
    \E e \in Engines : pc[e] = "caught" /\ err[e] = "Inconsistent state after write"

\* ---- C10

\* The validation error of Commit has left the engine.
CommitFailed(e) == pc[e] = "caught" /\ err[e] = "Failed to validate read set"

\* C10 as stated: when Commit fails, the state is INITIALIZED, with the
\* buffers cleared and the locks released.
CommitFailureInitialized ==
    \A e \in Engines :
        CommitFailed(e) =>
            /\ state_[e] = "INITIALIZED"
            /\ read_set_[e] = << >> /\ write_set_[e] = << >> /\ write_data_[e] = << >>
            /\ \A x \in Stripes : ~WriteLockIsLockedBy(w_lock[x], e)

\* C10 amended: when Commit fails, the state is still READ_WRITE_RUNNING
\* (the next Begin is a restart), with the buffers cleared, the write-owner
\* locks released and no lock bit left on a stripe this engine had locked.
CommitFailureStillRunning ==
    \A e \in Engines :
        CommitFailed(e) =>
            /\ state_[e] = "READ_WRITE_RUNNING"
            /\ read_set_[e] = << >> /\ write_set_[e] = << >> /\ write_data_[e] = << >>
            /\ \A x \in Stripes :
                   /\ ~WriteLockIsLockedBy(w_lock[x], e)
                   /\ ReadLockIsLocked(r_lock[x]) => WriteLockIsLocked(w_lock[x])

\* C10 witness: a Commit has failed its validation and thrown.
CommitFailureWitness ==
    \E e \in Engines : CommitFailed(e) /\ global_version >= 2

\* ---- C11

\* Engine e is in the handler of the outermost wrapper that calls End: the
\* error it caught is not retry-eligible.
InEnd(e) == pc[e] = "end" \/ (pc[e] = "caught" /\ ~ShouldRetry(err[e]))

\* The block the thread ran last left its wrapper by an exception.
LeftRaised(e) ==
    pc[e] = "idle" /\ result[e] # << >> /\ result[e][Len(result[e])] = "raised"

\* C11 (End before the rethrow): when a non-retry TransactionError or an
\* exception that is no TransactionError has left the outermost wrapper, End
\* has run: the engine is INITIALIZED, owns no write lock and has empty
\* buffers.
EndOnException ==
    \A e \in Engines :
        LeftRaised(e) =>
            /\ state_[e] = "INITIALIZED"
            /\ \A x \in DOMAIN w_lock : ~WriteLockIsLockedBy(w_lock[x], e)
            /\ read_set_[e] = << >>
            /\ write_set_[e] = << >>
            /\ write_data_[e] = << >>

\* The rest of C11: the handler never goes back to Begin, and its steps
\* change neither a read version nor target memory nor the global version.
EndFrame ==
    [][\A e \in Engines :
          InEnd(e) =>
              /\ pc'[e] \in {"caught", "end", "idle", "aborted"}
              /\ retries'[e] \in {retries[e], 0}
              /\ (pc'[e] # pc[e] \/ loc'[e] # loc[e]) =>
                     UNCHANGED <<mem, r_lock, global_version>>]_vars

\* ---- C12

\* The function of engine e is about to call Atomic.
AtAtomic(e) ==
    /\ pc[e] = "user"
    /\ ip[e] <= Len(CurBlock(e).ops)
    /\ CurOp(e).t = "atomic"

\* The non-retry error of Atomic is in flight in the handler of engine e.
EmbedCaught(e) == pc[e] \in {"caught", "end"} /\ err[e] = IncompatibleError("rw")

\* C12 (read-write nested in read-only fails fast): Atomic called while a
\* read-only transaction runs raises its non-retry TransactionError without
\* running the inner function; the enclosing AtomicRead does not run its
\* function again but ends the transaction and lets the error through to
\* its caller.
NestedIncompatible ==
    /\ [][\A e \in Engines :
             (AtAtomic(e) /\ state_[e] = "READ_ONLY_RUNNING"
                 /\ <<pc[e], ip[e]>>' # <<pc[e], ip[e]>>) =>
                 \/ pc'[e] = "aborted"
                 \/ /\ pc'[e] = "caught"
                    /\ err'[e] = IncompatibleError("rw")
                    /\ ~ShouldRetry(err'[e])
                    /\ ip'[e] = ip[e]
                    /\ UNCHANGED <<shared, engine, buffers>>]_vars
    /\ [][\A e \in Engines :
             EmbedCaught(e) =>
                 \/ pc'[e] = "aborted"
                 \/ EmbedCaught(e)'
                 \/ /\ pc'[e] = "idle"
                    /\ result'[e] = Append(result[e], "raised")
                    /\ state_'[e] = "INITIALIZED"]_vars
    /\ [](\A e \in Engines :
              EmbedCaught(e) =>
                  /\ CurBlock(e).kind = "ro"
                  /\ CurOp(e).t = "atomic"
                  /\ write_data_[e] = << >>
                  /\ CurBlock(e).ops[1].t = "atomic" => retries[e] = 0)

\* C12 witness: the error of a nested Atomic has left an AtomicRead whose
\* function ran once, while the other thread committed.
NestedIncompatibleWitness ==
    \E e \in Engines :
        /\ LeftRaised(e)
        /\ blocks[e][1].kind = "ro"
        /\ blocks[e][1].ops[1].t = "atomic"
        /\ state_[e] = "INITIALIZED"
        /\ mem # InitMem

\* ---- C13

\* Engine e is about to call a nested wrapper that its running transaction
\* is compatible with.
AtCompatible(e) ==
    /\ pc[e] = "user"
    /\ ip[e] <= Len(CurBlock(e).ops)
    /\ CurOp(e).t \in {"atomic", "atomicread"}
    /\ Promotion(NestedKind(CurOp(e)), state_[e]) = "COMPATIBLE"

\* The operation at ip[e] lies inside a nested block of the function.
InNested(e) ==
    /\ pc[e] \notin {"start", "idle", "aborted"}
    /\ ip[e] \in 1 .. Len(CurBlock(e).ops)
    /\ \E i \in 1 .. ip[e] - 1 :
           /\ CurBlock(e).ops[i].t \in {"atomic", "atomicread"}
           /\ \A j \in i + 1 .. ip[e] : CurBlock(e).ops[j].t # "ret"

\* C13 (nested compatible blocks join): a nested Atomic / AtomicRead that
\* finds a compatible transaction running goes straight into its function
\* and changes neither the engine state, the start version, the buffers
\* nor anything shared; inside the nested block the state is still that of
\* the outermost block; target memory changes only in the Commit that
\* follows the end of the outermost function; and a retry-eligible error
\* raised inside the nested block makes the outermost wrapper begin again
\* and run its function from the start.
NestedJoins ==
    /\ [][\A e \in Engines :
             (AtCompatible(e) /\ <<pc[e], ip[e]>>' # <<pc[e], ip[e]>>) =>
                 \/ pc'[e] = "aborted"
                 \/ /\ pc'[e] = "user"
                    /\ state_'[e] = state_[e]
                    /\ version_'[e] = version_[e]
                    /\ read_set_'[e] = read_set_[e]
                    /\ write_set_'[e] = write_set_[e]
                    /\ write_data_'[e] = write_data_[e]
                    /\ UNCHANGED shared]_vars
    /\ [][mem' # mem =>
             \E e \in Engines :
                 /\ Storing(pc[e])
                 /\ ip[e] > Len(CurBlock(e).ops)]_vars
    /\ [][\A e \in Engines :
             (InNested(e) /\ pc[e] = "caught" /\ ShouldRetry(err[e])) =>
                 \/ pc'[e] \in {"caught", "aborted"}
                 \/ /\ pc'[e] = "user"
                    /\ ip'[e] = NextIp(CurBlock(e).ops, 1, << >>)
                    /\ vals'[e] = << >>
                    /\ retries'[e] = retries[e] + 1
                    /\ write_data_'[e] = << >>
                    /\ version_'[e] = global_version
                    /\ state_'[e] = RunningState(CurBlock(e).kind)]_vars
    /\ [](\A e \in Engines :
              InNested(e) =>
                  state_[e] = RunningState(CurBlock(e).kind))

\* C13 witness: a read-write block whose nested Atomic wrote the word at
\* 16 has committed after a restart, and the nested write is in memory.
NestedJoinsWitness ==
    \E e \in Engines :
        /\ result[e] = << "ok" >>
        /\ blocks[e][1].ops[2].t = "atomic"
        /\ cm_backoff_[e] > 0
        /\ mem[16] # InitMem[16]

\* ---- C14

\* Engine e is about to call Atomic or AtomicRead from inside its function.
AtQuery(e) ==
    /\ pc[e] = "user"
    /\ ip[e] <= Len(CurBlock(e).ops)
    /\ CurOp(e).t \in {"atomic", "atomicread"}

\* C14 (promotion check table): in every state an engine can be in,
\* IsReadWriteCompatible answers NO_RUNNING when no transaction runs
\* (UNINITIALIZED, INITIALIZED), COMPATIBLE in READ_WRITE_RUNNING and
\* INCOMPATIBLE in READ_ONLY_RUNNING, IsReadOnlyCompatible answers
\* NO_RUNNING when no transaction runs and COMPATIBLE in both running
\* states; and the step that asks changes neither the engine nor its
\* buffers nor anything shared.
PromotionTable ==
    /\ [](\A e \in Engines :
              /\ state_[e] \in {"UNINITIALIZED", "INITIALIZED",
                                "READ_WRITE_RUNNING", "READ_ONLY_RUNNING"}
              /\ state_[e] \in {"UNINITIALIZED", "INITIALIZED"} =>
                     /\ IsReadWriteCompatible(state_[e]) = "NO_RUNNING"
                     /\ IsReadOnlyCompatible(state_[e]) = "NO_RUNNING"
              /\ state_[e] = "READ_WRITE_RUNNING" =>
                     /\ IsReadWriteCompatible(state_[e]) = "COMPATIBLE"
                     /\ IsReadOnlyCompatible(state_[e]) = "COMPATIBLE"
              /\ state_[e] = "READ_ONLY_RUNNING" =>
                     /\ IsReadWriteCompatible(state_[e]) = "INCOMPATIBLE"
                     /\ IsReadOnlyCompatible(state_[e]) = "COMPATIBLE")
    /\ [][\A e \in Engines :
             (AtQuery(e) /\ <<pc[e], ip[e]>>' # <<pc[e], ip[e]>>) =>
                 UNCHANGED <<shared, engine, buffers>>]_vars

\* C14 witness: one thread asks IsReadWriteCompatible inside a read-only
\* transaction while the other asks IsReadOnlyCompatible inside a
\* read-write transaction that holds a write lock.
PromotionTableWitness ==
    \E e1, e2 \in Engines :
        /\ AtQuery(e1) /\ CurOp(e1).t = "atomic"
        /\ state_[e1] = "READ_ONLY_RUNNING"
        /\ AtQuery(e2) /\ CurOp(e2).t = "atomicread"
        /\ state_[e2] = "READ_WRITE_RUNNING"
        /\ write_set_[e2] # << >>

\* ---- C15

\* Engine e is about to call Commit with an empty write set.
AtEmptyCommit(e) ==
    /\ pc[e] = "user"
    /\ ip[e] > Len(CurBlock(e).ops)
    /\ IsRunning(state_[e])
    /\ write_set_[e] = << >>

\* C15 (idempotent commit): Commit of a transaction whose write set is
\* empty, read-only or read-write, returns in one step that leaves target
\* memory, the global version and the read version and write owner of
\* every stripe as they were.
EmptyCommit ==
    [][\A e \in Engines :
          (AtEmptyCommit(e) /\ pc'[e] # pc[e]) =>
              \/ pc'[e] = "aborted"
              \/ /\ pc'[e] = "idle"
                 /\ result'[e] = Append(result[e], "ok")
                 /\ state_'[e] = "INITIALIZED"
                 /\ UNCHANGED <<mem, global_version, r_lock, w_lock>>]_vars

\* C15 witness: two transfers have returned; the first emptied the counter
\* at 8 as version 1, the second found nothing to move and its Commit of an
\* empty write set left the global version at 1.
EmptyCommitWitness ==
    /\ \A e \in Engines : blocks[e] = << Transfer(8, 16, 1) >> /\ result[e] = << "ok" >>
    /\ global_version = 1
    /\ mem[8] = 0
    /\ mem[16] = 3

\* ---- C16

\* C16 (global version): the global version never decreases; it changes
\* only in the increment step of the Commit of a read-write transaction
\* whose write set is not empty, by one, to the version that Commit then
\* publishes; and a Commit reaches that step once: it is entered only from
\* the lock-bit loop that the call of Commit starts, every pass through it
\* increments, and the storing part is entered only after it.
GlobalVersionMonotone ==
    /\ [][global_version' >= global_version]_vars
    /\ [][global_version' # global_version =>
             \E e \in Engines :
                 /\ pc[e] = "c_inc" /\ pc'[e] # "c_inc"
                 /\ state_[e] = "READ_WRITE_RUNNING"
                 /\ write_set_[e] # << >>
                 /\ global_version' = global_version + 1
                 /\ loc'[e].nv = global_version']_vars
    /\ [][\A e \in Engines :
             /\ (pc[e] # "c_lock" /\ pc'[e] = "c_lock") =>
                    (pc[e] = "user" /\ ip[e] > Len(CurBlock(e).ops))
             /\ (pc[e] # "c_inc" /\ pc'[e] = "c_inc") => pc[e] = "c_lock"
             /\ (pc[e] = "c_inc" /\ pc'[e] \notin {"c_inc", "aborted"}) =>
                    global_version' = global_version + 1
             /\ (~Storing(pc[e]) /\ Storing(pc'[e])) =>
                    \/ pc[e] = "c_inc"
                    \/ pc[e] = "vrs_ret" /\ loc[e].ctx = "commit"
             /\ Storing(pc[e]) =>
                    loc[e].nv \in version_[e] + 1 .. global_version]_vars

\* C16 witness: both threads have committed writes and one Commit failed
\* its validation on the way: three increments for two successful commits.
GlobalVersionWitness ==
    /\ \A e \in Engines : result[e] = << "ok" >>
    /\ global_version = 3
    /\ \E e \in Engines : cm_backoff_[e] > 0

\* ---- C17

\* Engine e has stripe s in its write set.
InWriteSet(e, s) == \E i \in 1 .. Len(write_set_[e]) : write_set_[e][i].key = s

\* C17 (write-owner mutual exclusion): the write-owner field of a stripe is
\* non-zero only while exactly one engine has the stripe in its write set,
\* that engine being the owner, and no stripe is in the write sets of two
\* engines at once.
WriteOwnerExclusion ==
    /\ \A s \in DOMAIN w_lock :
           w_lock[s] # 0 =>
               /\ w_lock[s] \in Engines
               /\ \A e \in Engines : InWriteSet(e, s) <=> e = w_lock[s]
    /\ \A e1, e2 \in Engines :
           e1 # e2 => ~\E s \in DOMAIN w_lock : InWriteSet(e1, s) /\ InWriteSet(e2, s)

\* The steps of the write-owner field: it goes from zero to the engine whose
\* TryLock succeeds, and back to zero only in a step of its owner.
WriteOwnerSteps ==
    [][\A s \in DOMAIN w_lock :
          w_lock'[s] # w_lock[s] =>
              \/ /\ w_lock[s] = 0
                 /\ w_lock'[s] \in Engines
                 /\ pc[w_lock'[s]] # pc'[w_lock'[s]] \/ loc[w_lock'[s]] # loc'[w_lock'[s]]
              \/ /\ w_lock[s] \in Engines
                 /\ w_lock'[s] = 0
                 /\ InWriteSet(w_lock[s], s)
                 /\ pc[w_lock[s]] # pc'[w_lock[s]] \/ loc[w_lock[s]] # loc'[w_lock[s]]]_vars

\* ---- C18

\* Engine e is executing Commit between the first r_lock.Lock() and the
\* last release of its loops.
InCommit(e) ==
    \/ pc[e] \in {"c_lock", "c_inc", "c_data", "c_pub_r", "c_pub_w", "c_unlock"}
    \/ pc[e] \in {"vrs", "vrs_cmp", "vrs_ret"} /\ loc[e].ctx = "commit"

\* C18 (lock-bit scoping): a stripe whose read version has the lock bit set
\* is owned by an engine that is inside Commit, between setting its lock
\* bits and releasing, and lists the stripe in its write set; when no
\* engine is inside Commit no stripe has the lock bit set, also after a
\* Commit that failed its validation (in every state of a process that has
\* not been ended by a failed assert).
LockBitScoped ==
    /\ \A s \in DOMAIN r_lock :
           (ReadLockIsLocked(r_lock[s]) /\ ~Crashed) =>
               /\ w_lock[s] \in Engines
               /\ InCommit(w_lock[s])
               /\ InWriteSet(w_lock[s], s)
    /\ (~Crashed /\ \A e \in Engines : ~InCommit(e)) =>
           \A s \in DOMAIN r_lock : ~ReadLockIsLocked(r_lock[s])
    /\ \A e \in Engines :
           CommitFailed(e) =>
               \A s \in DOMAIN r_lock :
                   ReadLockIsLocked(r_lock[s]) => w_lock[s] # e

\* C18 witness: one Commit has failed its validation and thrown, with its
\* lock bits cleared, while the other thread is inside Commit and holds the
\* lock bit of a stripe.
LockBitScopedWitness ==
    \E e1, e2 \in Engines :
        /\ CommitFailed(e2)
        /\ InCommit(e1)
        /\ \E s \in DOMAIN r_lock : ReadLockIsLocked(r_lock[s]) /\ w_lock[s] = e1

\* ---- C19

\* One of the three lists of engine e has been asked for an entry past its
\* last slot: next_index_ is beyond the pool.
Overflowed(e) ==
    \/ Len(read_set_[e]) > kPoolEntries
    \/ Len(write_set_[e]) > kPoolEntries
    \/ Len(write_data_[e]) > kPoolEntries

\* C19 (pooled-list overflow is fatal): the operation that asks a list for
\* a 256th entry raises an error that is not retry-eligible; the wrapper
\* does not run the function again but ends the transaction and lets the
\* error through: an overflowed list is seen only in the wrapper's handler,
\* and once the error has left the wrapper the engine is INITIALIZED, with
\* its lists cleared and no write lock owned.
OverflowFatal ==
    \A e \in Engines :
        /\ (pc[e] = "caught" /\ err[e] = "Out of memory") =>
               /\ ~ShouldRetry(err[e])
               /\ Overflowed(e)
        /\ Overflowed(e) =>
               /\ pc[e] \in {"caught", "end"}
               /\ err[e] = "Out of memory"
               /\ retries[e] = 0
        /\ (LeftRaised(e) /\ ~Crashed) =>
               /\ ~IsRunning(state_[e])
               /\ \A s \in DOMAIN w_lock : w_lock[s] # e

\* ---- C20

\* Engine e is about to call ThreadInit again, inside a function.
AtInit(e) ==
    /\ pc[e] = "user"
    /\ ip[e] <= Len(CurBlock(e).ops)
    /\ CurOp(e).t = "init"

\* C20 (ThreadInit is idempotent): the first call takes the engine from
\* UNINITIALIZED to INITIALIZED and leaves what is shared alone; a later call, also
\* one made while a transaction runs and holds locks and buffered entries,
\* changes neither the engine state, the start version, the buffers, the
\* locks nor anything else that is shared.
ThreadInitIdempotent ==
    /\ [][\A e \in Engines :
             (pc[e] = "start" /\ pc'[e] # "start") =>
                 \/ pc'[e] = "aborted"
                 \/ /\ state_[e] = "UNINITIALIZED"
                    /\ state_'[e] = "INITIALIZED"
                    /\ UNCHANGED <<shared, version_, cm_ts_, cm_backoff_, buffers>>]_vars
    /\ [][\A e \in Engines :
             (AtInit(e) /\ <<pc[e], ip[e]>>' # <<pc[e], ip[e]>>) =>
                 \/ pc'[e] = "aborted"
                 \/ /\ pc'[e] = "user"
                    /\ UNCHANGED <<shared, engine, buffers>>]_vars

\* C20 witness: a thread has called ThreadInit again inside a read-write
\* transaction that owns the stripe of 8 and has a buffered write, and is
\* still running it, after the other thread has committed.
ThreadInitWitness ==
    \E e \in Engines :
        /\ pc[e] = "user"
        /\ ip[e] = 3
        /\ CurBlock(e).ops[2].t = "init"
        /\ state_[e] = "READ_WRITE_RUNNING"
        /\ w_lock[8] = e
        /\ write_data_[e] # << >>
        /\ global_version >= 1

\* ---- C21

\* The values the reads of a block return when it runs alone on memory m.
RECURSIVE SerialReads(_, _, _, _, _)
SerialReads(kind, ops, i, vs, m) ==
    LET j == NextIp(ops, i, vs)
    IN  IF j > Len(ops) THEN vs
        ELSE IF ops[j].t = "r"
             THEN SerialReads(kind, ops, j + 1, Append(vs, m[ops[j].a]), m)
        ELSE IF ops[j].t = "w"
             THEN SerialReads(kind, ops, j + 1, vs,
                              [m EXCEPT ![ops[j].a] =
                                  BitOr(BitAnd(@, BitNot(ops[j].m)),
                                        BitAnd(WriteValue(ops[j], vs), ops[j].m))])
        ELSE IF ops[j].t = "init" \/ ops[j].t = "atomicread"
                \/ (ops[j].t = "atomic" /\ kind = "rw")
             THEN SerialReads(kind, ops, j + 1, vs, m)
        ELSE vs

\* Engine e is in Commit and holds the new_version of its increment.
HasNewVersion(e) == InCommit(e) /\ pc[e] \notin {"c_lock", "c_inc"}

\* C21 (commits linearize at the increment): no two commits hold the same
\* new_version; a commit that is past its validation has read, in every
\* ReadWord of its function, the value the function reads when it runs
\* alone on memory as the commits of smaller new_version leave it; and
\* once every thread is outside its wrappers, target memory is the initial
\* memory with the write data of the successful commits applied in the
\* order of their new_version.
Linearized ==
    /\ \A e1, e2 \in Engines :
           (e1 # e2 /\ HasNewVersion(e1) /\ HasNewVersion(e2)) =>
               loc[e1].nv # loc[e2].nv
    /\ \A e \in Engines :
           Storing(pc[e]) =>
               ValsOf(vals[e]) =
                   SerialReads(CurBlock(e).kind, CurBlock(e).ops, 1, << >>,
                               MemoryAsOf(loc[e].nv - 1))
    /\ Quiescent => mem = MemoryAsOf(Len(clog))

\* Every read engine e made on a stripe it owned was of an address it had
\* written.
OwnReadsWritten(e) ==
    \A i \in 1 .. Len(vals[e]) :
        vals[e][i].own => PooledListGet(write_data_[e], vals[e][i].a) # 0

\* The linearization of the commits whose reads on owned stripes were all of
\* addresses they had written.
LinearizedWritten ==
    /\ \A e1, e2 \in Engines :
           (e1 # e2 /\ HasNewVersion(e1) /\ HasNewVersion(e2)) =>
               loc[e1].nv # loc[e2].nv
    /\ \A e \in Engines :
           (Storing(pc[e]) /\ OwnReadsWritten(e)) =>
               ValsOf(vals[e]) =
                   SerialReads(CurBlock(e).kind, CurBlock(e).ops, 1, << >>,
                               MemoryAsOf(loc[e].nv - 1))
    /\ Quiescent => mem = MemoryAsOf(Len(clog))

\* ---- C22

\* The entries of engine e's read set for stripe s.
ReadSetEntries(e, s) == {i \in 1 .. Len(read_set_[e]) : read_set_[e][i].key = s}

\* No thread but that of engine e has started: what a stripe carries is what
\* e's last accepted read of it saw.
RunsAlone(e) == \A x \in Engines \ {e} : pc[x] = "start"

\* C22 (observed version): once the double-sample loop of ReadWord has
\* accepted v1 for a stripe the engine does not own, the read set holds
\* exactly one entry for the stripe and its observed version is v1: seen
\* while ReadWord goes on to Extend, and, for a thread that runs alone, after
\* ReadWord has returned, when the stripe still carries the accepted v1.
ObservedVersion ==
    \A e \in Engines :
        /\ (pc[e] \in {"ext", "vrs", "vrs_cmp", "vrs_ret"} /\ loc[e].ctx = "rd") =>
               \E i \in ReadSetEntries(e, GetLockIndex(loc[e].a)) :
                   /\ ReadSetEntries(e, GetLockIndex(loc[e].a)) = {i}
                   /\ read_set_[e][i].old_version = loc[e].v1
        /\ (pc[e] = "user" /\ RunsAlone(e)) =>
               \A k \in 1 .. Len(vals[e]) :
                   LET s == GetLockIndex(vals[e][k].a)
                   IN  (~vals[e][k].own /\ ~WriteLockIsLockedBy(w_lock[s], e)) =>
                           \E i \in ReadSetEntries(e, s) :
                               /\ ReadSetEntries(e, s) = {i}
                               /\ read_set_[e][i].old_version = r_lock[s]

\* ---- C23

\* Every stripe engine e has read in this attempt carries the read version
\* the read accepted, the stripe of the read in progress included.
ReadsUntouched(e) ==
    /\ \A k \in 1 .. Len(vals[e]) :
           ~vals[e][k].own => r_lock[GetLockIndex(vals[e][k].a)] = vals[e][k].ver
    /\ loc[e].ctx = "rd" => r_lock[GetLockIndex(loc[e].a)] = loc[e].v1

\* No Commit has failed its validation or is at it: every lock bit a Commit
\* has set is still set or has given way to a new version.
NoFailedCommit == \A k \in 1 .. Len(clog) : clog[k] # << >>

\* C23 (Extend widens): when ReadWord or WriteWord has called Extend and every
\* stripe the transaction has read carries the version it had when read, no
\* Commit having failed meanwhile, then ValidateReadSet has answered true, so
\* that the operation will not raise.
ExtendWidens ==
    \A e \in Engines :
        (/\ pc[e] = "vrs_ret"
         /\ loc[e].ctx \in {"rd", "wr"}
         /\ ReadsUntouched(e)
         /\ NoFailedCommit) => loc[e].ok

\* What holds of Extend: answering true it has made the start version the
\* global version it sampled, answering false it has left it alone.
ExtendFrame ==
    [][\A e \in Engines :
           (/\ pc[e] = "vrs_ret" /\ loc[e].ctx \in {"rd", "wr"}
            /\ pc'[e] \notin {"vrs_ret", "aborted"}) =>
               version_'[e] = IF loc[e].ok THEN loc[e].nv ELSE version_[e]]_vars

\* ---- C24

\* ValidateReadSet of engine e compares the entry it is at.
AtValidateCompare(e) == pc[e] = "vrs_cmp" /\ pc'[e] \notin {"vrs_cmp", "aborted"}

\* The entry ValidateReadSet of engine e is at conflicts: the stripe's read
\* version differs from the entry's observed version, and it is not so that
\* the sampled lock bit is set and the stripe's write-owner is e.
EntryConflicts(e) ==
    LET entry == read_set_[e][loc[e].i]
    IN  /\ r_lock[entry.key] # entry.old_version
        /\ ~(loc[e].v >= kLockMask /\ w_lock[entry.key] = e)

\* C24 (ValidateReadSet): ValidateReadSet answers false at the first entry
\* that conflicts and true past the last entry when none did; validating at
\* Commit it never fails at a stripe of its own write set, whose lock bit it
\* has set itself; and an entry whose stripe carries the lock bit of another
\* engine always makes it answer false.
ValidateReadSetLogic ==
    /\ [](\A e \in Engines :
              (pc[e] = "vrs_ret" /\ read_set_[e] # << >>) =>
                  /\ loc[e].ok => loc[e].i = Len(read_set_[e])
                  /\ (~loc[e].ok /\ loc[e].ctx = "commit") =>
                         ~InWriteSet(e, read_set_[e][loc[e].i].key))
    /\ [][\A e \in Engines :
              AtValidateCompare(e) =>
                  LET key == read_set_[e][loc[e].i].key
                  IN  /\ EntryConflicts(e) <=> (pc'[e] = "vrs_ret" /\ ~loc'[e].ok)
                      /\ (~EntryConflicts(e) /\ loc[e].i < Len(read_set_[e])) =>
                             (pc'[e] = "vrs" /\ loc'[e].i = loc[e].i + 1)
                      /\ (r_lock[key] >= kLockMask /\ w_lock[key] # e) =>
                             (pc'[e] = "vrs_ret" /\ ~loc'[e].ok)]_vars

\* Commit-time validation has passed over a stripe the transaction read and
\* later wrote, its own lock bit set on it.
ValidateReadSetWitness ==
    \E e \in Engines :
        /\ pc[e] = "vrs_ret"
        /\ loc[e].ctx = "commit"
        /\ loc[e].ok
        /\ \E i \in 1 .. Len(read_set_[e]) :
               /\ InWriteSet(e, read_set_[e][i].key)
               /\ r_lock[read_set_[e][i].key] >= kLockMask

\* ---- C25

\* The word at address is, while its stripe carries read version v with the
\* lock bit clear, what the commits up to new_version v have made it.
WordAtVersion(address, v) == MemoryAsOf(v)[address]

\* C25 (no torn read): ReadWord on a stripe the reader does not own loads the
\* word only after a sample v1 with the lock bit clear, and accepts it only
\* with the second sample equal to v1; the word accepted, and the word
\* returned, is the content the word has while the stripe carries v1, so
\* that what a Commit stores is returned only with that Commit's new_version.
NoTornRead ==
    \A e \in Engines :
        /\ pc[e] = "rd_v2" => loc[e].v1 < kLockMask
        /\ (pc[e] \in {"ext", "vrs", "vrs_cmp", "vrs_ret"} /\ loc[e].ctx = "rd") =>
               /\ loc[e].v1 < kLockMask
               /\ loc[e].d = WordAtVersion(loc[e].a, loc[e].v1)
        /\ pc[e] \notin {"start", "idle", "aborted"} =>
               \A k \in 1 .. Len(vals[e]) :
                   ~vals[e][k].own =>
                       /\ vals[e][k].ver < kLockMask
                       /\ vals[e][k].v = WordAtVersion(vals[e][k].a, vals[e][k].ver)

\* A read has returned a word another engine's Commit stored, accepted with
\* the new_version of that Commit.
NoTornReadWitness ==
    \E e \in Engines :
        /\ pc[e] = "user"
        /\ \E k \in 1 .. Len(vals[e]) :
               /\ ~vals[e][k].own
               /\ vals[e][k].ver >= 1
               /\ vals[e][k].v # InitMem[vals[e][k].a]
               /\ \E i \in 1 .. Len(clog[vals[e][k].ver]) :
                      clog[vals[e][k].ver][i].key = vals[e][k].a

\* ---- C26

\* The stripe of the write-set entry the release loop of engine e is at.
ReleasedStripe(e) == write_set_[e][loc[e].i].key

\* C26 (commit publication): in a Commit that has passed validation, every
\* write-data entry is in target memory before the first stripe is released;
\* the release loop gives each stripe of the write set the new_version of
\* this Commit with the lock bit clear, then write-owner zero; no step of the
\* Commit changes the read version or the write-owner of a stripe outside the
\* write set; and when the Commit returns none of its stripes is owned by it
\* or carries a version below new_version: exactly new_version while no
\* later Commit has taken a version, unlocked and unowned when no other
\* thread is in a transaction.
CommitPublication ==
    /\ [](\A e \in Engines :
              pc[e] \in {"c_pub_r", "c_pub_w"} =>
                  \A i \in 1 .. Len(write_data_[e]) :
                      LET entry == write_data_[e][i]
                      IN  w_lock[GetLockIndex(entry.key)] = e =>
                              mem[entry.key] = CommitData(mem[entry.key], entry))
    /\ [][\A e \in Engines :
              (InCommit(e) /\ (pc'[e] # pc[e] \/ loc'[e] # loc[e]) /\ pc'[e] # "aborted") =>
                  /\ \A s \in Stripes :
                         ~InWriteSet(e, s) => (r_lock'[s] = r_lock[s] /\ w_lock'[s] = w_lock[s])
                  /\ pc[e] = "c_data" => (r_lock' = r_lock /\ w_lock' = w_lock)
                  /\ pc[e] = "c_pub_r" =>
                         /\ r_lock' = [r_lock EXCEPT ![ReleasedStripe(e)] = loc[e].nv]
                         /\ w_lock' = w_lock
                         /\ w_lock[ReleasedStripe(e)] = e
                  /\ pc[e] = "c_pub_w" =>
                         /\ w_lock' = [w_lock EXCEPT ![ReleasedStripe(e)] = 0]
                         /\ r_lock' = r_lock
                  /\ (pc[e] = "c_pub_w" /\ pc'[e] = "idle") =>
                         \A s \in Stripes :
                             InWriteSet(e, s) =>
                                 /\ w_lock'[s] # e
                                 /\ r_lock'[s] % kLockMask >= loc[e].nv
                                 /\ global_version' = loc[e].nv =>
                                        r_lock'[s] % kLockMask = loc[e].nv
                                 /\ (Quiescent' /\ global_version' = loc[e].nv) =>
                                        (r_lock'[s] = loc[e].nv /\ w_lock'[s] = 0)]_vars

\* A Commit has returned and every stripe it wrote carries its new_version,
\* unlocked and unowned.
CommitPublicationWitness ==
    \E e \in Engines :
        /\ pc[e] = "idle"
        /\ wrote[e] # {}
        /\ global_version >= 1
        /\ \A a \in wrote[e] :
               /\ r_lock[GetLockIndex(a)] = global_version
               /\ w_lock[GetLockIndex(a)] = 0

\* ---- C27

\* The read version of stripe s, the lock bit masked off.
VersionOf(rl, s) == rl[s] % kLockMask

\* C27 (per-stripe monotonicity): the read version of a stripe, lock bit
\* masked off, never exceeds the global version and never decreases; it
\* changes only in the release loop of a Commit that has passed validation
\* and lists the stripe in its write set, to that Commit's new_version; the
\* lock loop and the unlock loop of a failing Commit leave it alone.
StripeVersionMonotone ==
    /\ [](\A s \in Stripes : VersionOf(r_lock, s) <= global_version)
    /\ [][\A s \in Stripes :
              /\ VersionOf(r_lock', s) >= VersionOf(r_lock, s)
              /\ VersionOf(r_lock', s) # VersionOf(r_lock, s) =>
                     \E e \in Engines :
                         /\ pc[e] = "c_pub_r"
                         /\ pc'[e] = "c_pub_w"
                         /\ InWriteSet(e, s)
                         /\ VersionOf(r_lock', s) = loc[e].nv
              /\ \A e \in Engines :
                     (/\ pc[e] \in {"c_lock", "c_unlock"}
                      /\ (pc'[e] # pc[e] \/ loc'[e] # loc[e])
                      /\ r_lock'[s] # r_lock[s]) =>
                         /\ InWriteSet(e, s)
                         /\ (r_lock'[s] >= kLockMask) = (pc[e] = "c_lock")]_vars

\* A Commit has failed its validation and released its lock bits: the new
\* version it took is on none of its stripes, while a stripe another Commit
\* wrote carries that Commit's version.
StripeVersionWitness ==
    \E e \in Engines :
        /\ pc[e] = "rb"
        /\ loc[e].ctx = "Failed to validate read set"
        /\ global_version >= 2
        /\ \A i \in 1 .. Len(write_set_[e]) :
               r_lock[write_set_[e][i].key] < global_version
        /\ \E s \in Stripes : ~InWriteSet(e, s) /\ r_lock[s] \in 1 .. global_version

\* ---- C28

\* Commit has returned from the read-only transaction of engine e: the
\* wrapper AtomicRead, entered outside any transaction, has returned.
ReadOnlyCommitted(e) ==
    /\ pc[e] = "idle"
    /\ bi[e] > 1
    /\ blocks[e][bi[e] - 1].kind = "ro"
    /\ result[e][Len(result[e])] = "ok"

\* C28 (read-only Commit clears): after Commit has returned from a read-only
\* transaction the read set, the write set and the write data are empty, and
\* a transaction that has read nothing yet has an empty read set.
ReadOnlyCommitClears ==
    \A e \in Engines :
        /\ ReadOnlyCommitted(e) =>
               /\ state_[e] = "INITIALIZED"
               /\ read_set_[e] = << >>
               /\ write_set_[e] = << >>
               /\ write_data_[e] = << >>
        /\ (pc[e] = "user" /\ vals[e] = << >>) => read_set_[e] = << >>

\* ---- C29

\* Engine e is about to call ReadWord on a stripe it write-owns.
AtOwnedRead(e) ==
    /\ pc[e] = "user"
    /\ bi[e] <= Len(blocks[e])
    /\ ip[e] <= Len(CurBlock(e).ops)
    /\ CurOp(e).t = "r"
    /\ WriteLockIsLockedBy(w_lock[GetLockIndex(CurOp(e).a)], e)

\* C29 (owned read finds its entry): whenever ReadWord is called for an
\* address whose stripe the calling engine write-owns, the write data holds an
\* entry for that address, so that the assertion entry != nullptr holds -
\* also for an address the transaction never wrote that shares the stripe of
\* one it wrote.
OwnedReadFindsEntry ==
    \A e \in Engines :
        AtOwnedRead(e) => PooledListGet(write_data_[e], CurOp(e).a) # 0

\* What holds of an owned read: with an entry for the address it returns the
\* entry's word, and in any case it leaves the read set alone.
OwnedReadFrame ==
    [][\A e \in Engines :
           (AtOwnedRead(e) /\ pc'[e] = "user" /\ vals'[e] # vals[e]) =>
               LET entry == PooledListGet(write_data_[e], CurOp(e).a)
                   r     == vals'[e][Len(vals'[e])]
               IN  /\ r.own
                   /\ read_set_' = read_set_
                   /\ entry # 0 => r.v = write_data_[e][entry].data]_vars

\* ---- C30

\* C30 (partial-word writes capture the untouched bits): every write-data
\* entry of a running transaction holds, outside its accumulated mask, the
\* bits of the word in target memory - whether WriteWord acquired the stripe
\* or found it owned with no entry for the address - so that a ReadWord of
\* the address returns (memory & ~mask) | (data & mask).
PartialWriteCaptures ==
    \A e \in Engines :
        pc[e] = "user" =>
            \A i \in 1 .. Len(write_data_[e]) :
                LET entry == write_data_[e][i]
                IN  WriteLockIsLockedBy(w_lock[GetLockIndex(entry.key)], e) =>
                        BitAnd(entry.data, BitNot(entry.mask))
                            = BitAnd(mem[entry.key], BitNot(entry.mask))

\* ---- C31

\* C31 (acquisition recorded in the read set): once WriteWord has acquired
\* the write-owner of a stripe and returned, the read set of the engine holds
\* an entry for that stripe, whose observed version is the read version the
\* stripe carries while the engine owns it.
WriteRecordsPreImage ==
    \A e \in Engines :
        pc[e] = "user" =>
            \A i \in 1 .. Len(write_set_[e]) :
                LET s == write_set_[e][i].key
                IN  WriteLockIsLockedBy(w_lock[s], e) =>
                        \E k \in ReadSetEntries(e, s) :
                            read_set_[e][k].old_version = r_lock[s]

\* ---- C32

\* The wrapper of engine e calls Begin and the function starts.
AtBegin(e) == pc[e] \in {"idle", "caught"} /\ pc'[e] = "user"

\* C32 (Begin and start version): Begin, called in state INITIALIZED or in
\* the RUNNING state of its mode, leaves the engine in that RUNNING state with
\* the start version equal to the global version; CmOnRestart has run exactly
\* when the state was that RUNNING state; the start version never exceeds the
\* global version, and it changes only in Begin and in an Extend that
\* answered true, where it does not decrease.
BeginStartVersion ==
    /\ [](\A e \in Engines : version_[e] <= global_version)
    /\ [][\A e \in Engines :
              /\ AtBegin(e) =>
                     LET running == RunningState(blocks'[e][bi'[e]].kind)
                     IN  /\ state_[e] \in {"INITIALIZED", running}
                         /\ state_'[e] = running
                         /\ version_'[e] = global_version
                         /\ global_version' = global_version
                         /\ IF state_[e] = running
                            THEN \E rand \in RandVals :
                                     cm_backoff_'[e] =
                                         (2 * ((cm_backoff_[e] + rand) % Pow2(kBackoffBits)))
                                             % Pow2(kBackoffBits)
                            ELSE cm_backoff_'[e] = cm_backoff_[e]
              /\ (version_'[e] # version_[e] /\ ~AtBegin(e)) =>
                     /\ pc[e] = "vrs_ret"
                     /\ loc[e].ctx \in {"rd", "wr"}
                     /\ loc[e].ok
                     /\ version_'[e] = loc[e].nv
                     /\ version_'[e] > version_[e]
              /\ (cm_backoff_'[e] # cm_backoff_[e] \/ state_[e] # state_'[e]) =>
                     (AtBegin(e) \/ state_'[e] = "INITIALIZED")]_vars

\* A restarted attempt runs: Begin has slept and sampled a start version
\* later than that of the first attempt.
BeginStartVersionWitness ==
    \E e \in Engines :
        /\ pc[e] = "user"
        /\ retries[e] >= 1
        /\ version_[e] >= 1
        /\ version_[e] = global_version
        /\ cm_backoff_[e] > 0

\* ---- C33

\* Engine e has been told to abort by CmShouldAbort: Rollback has begun, or,
\* with nothing to unlock, is over and the retry-eligible error is thrown.
Yields(e) ==
    \/ pc'[e] = "rb" /\ loc'[e].ctx = "Stuff"
    \/ pc'[e] = "caught" /\ err'[e] = "Stuff" /\ ShouldRetry(err'[e])

\* What a step leaves alone of engine o and of the stripes.
Undisturbed(o) ==
    /\ state_'[o] = state_[o] /\ version_'[o] = version_[o]
    /\ cm_ts_'[o] = cm_ts_[o] /\ cm_backoff_'[o] = cm_backoff_[o]
    /\ read_set_'[o] = read_set_[o] /\ write_set_'[o] = write_set_[o]
    /\ write_data_'[o] = write_data_[o]
    /\ pc'[o] = pc[o] /\ loc'[o] = loc[o]
    /\ w_lock' = w_lock /\ r_lock' = r_lock

\* C33 (arbitration): a requester without timestamp that finds the stripe
\* write-locked rolls back and raises the retry-eligible error; one with a
\* timestamp does so exactly when the owner's timestamp is smaller than its
\* own, and else goes on waiting, changing nothing of the owner; so of two
\* engines with timestamps the one with the smaller never yields to the
\* other.
CmArbitration ==
    [][\A e \in Engines :
           /\ (/\ pc[e] = "ww_loop" /\ pc'[e] # "ww_loop"
               /\ w_lock[GetLockIndex(loc[e].a)] # 0
               /\ cm_ts_[e] = kMaxVersion) => Yields(e)
           /\ (pc[e] = "ww_loop" /\ pc'[e] # "ww_loop" /\ Yields(e)) =>
                  (w_lock[GetLockIndex(loc[e].a)] # 0 /\ cm_ts_[e] = kMaxVersion)
           /\ (pc[e] = "cm_ts" /\ pc'[e] # "cm_ts") =>
                  LET o == loc[e].owner
                  IN  /\ o \in Engines \ {e}
                      /\ cm_ts_[e] # kMaxVersion
                      /\ Yields(e) <=> cm_ts_[o] < cm_ts_[e]
                      /\ ~Yields(e) => (pc'[e] = "ww_loop" /\ Undisturbed(o))
                      /\ cm_ts_[e] < cm_ts_[o] => ~Yields(e)]_vars

\* An engine with a timestamp has yielded to the owner of the stripe, whose
\* timestamp is smaller.
CmArbitrationWitness ==
    \E e \in Engines :
        /\ pc[e] = "rb"
        /\ loc[e].ctx = "Stuff"
        /\ cm_ts_[e] # kMaxVersion
        /\ \E o \in Engines \ {e} : cm_ts_[o] < cm_ts_[e] /\ write_set_[o] # << >>

\* ---- C34

\* Engine e is inside an attempt of a transaction.
InAttempt(e) == pc[e] \notin {"start", "idle", "aborted", "caught"}

\* C34 (greedy only after sufficient work): while the write set of a running
\* transaction holds fewer than kGreedyWrites stripes the engine has no
\* timestamp - in every transaction the engine runs, also one that follows a
\* transaction that had claimed a timestamp; and two engines never hold the
\* same timestamp.
GreedyAfterWork ==
    /\ \A e \in Engines :
           (InAttempt(e) /\ Len(write_set_[e]) < kGreedyWrites /\ ~InCommit(e)
            /\ pc[e] # "rb") => cm_ts_[e] = kMaxVersion
    /\ \A e1, e2 \in Engines :
           (e1 # e2 /\ cm_ts_[e1] # kMaxVersion) => cm_ts_[e1] # cm_ts_[e2]

\* What holds of the timestamps: an engine claims one only in a WriteWord
\* that leaves kGreedyWrites stripes or more in its write set, having none,
\* and the one it gets is the greedy counter, which no engine holds.
TimestampClaims ==
    [][\A e \in Engines :
           cm_ts_'[e] # cm_ts_[e] =>
               /\ cm_ts_[e] = kMaxVersion
               /\ pc[e] \in {"ww_chk", "vrs_ret"}
               /\ Len(write_set_[e]) >= kGreedyWrites
               /\ cm_ts_'[e] = greedy_version
               /\ greedy_version' = greedy_version + 1
               /\ \A o \in Engines : cm_ts_[o] = kMaxVersion \/ cm_ts_[o] < greedy_version]_vars

\* ---- C35

\* Engine e is in the acquire loop of WriteWord.
Spinning(e) == pc[e] \in {"ww_loop", "cm_owner", "cm_ts", "ww_try"}

\* Engine e waits for a stripe that engine o owns.
WaitsFor(e, o) == Spinning(e) /\ w_lock[GetLockIndex(loc[e].a)] = o

\* The two engines wait for each other.
WaitCycle == \E e1, e2 \in Engines : e1 # e2 /\ WaitsFor(e1, e2) /\ WaitsFor(e2, e1)

\* CmShouldAbort tells engine e, which waits for o, to abort.
ToldToAbort(e, o) == cm_ts_[e] = kMaxVersion \/ cm_ts_[o] < cm_ts_[e]

\* C35 (no deadlock of waiting writers): whenever the engines wait for each
\* other in WriteWord, CmShouldAbort tells one of them to abort, and a cycle
\* of waiting engines is always broken: one of them leaves the loop.
NoWaitDeadlock ==
    /\ [](\A e1, e2 \in Engines :
              (e1 # e2 /\ WaitsFor(e1, e2) /\ WaitsFor(e2, e1)) =>
                  (ToldToAbort(e1, e2) \/ ToldToAbort(e2, e1)))
    /\ (WaitCycle ~> ~WaitCycle)

\* Two engines, each with a timestamp, wait for each other.
NoWaitDeadlockWitness ==
    /\ WaitCycle
    /\ \A e \in Engines : cm_ts_[e] # kMaxVersion

\* ------------------------------------------------------------------ C36

\* The block of engine e has committed.
HasCommitted(e) == \E i \in 1 .. Len(result[e]) : result[e][i] = "ok"

\* C36: under fair scheduling of all engines, of the engines that keep
\* retrying conflicting atomic blocks through the retry loop of Atomic at
\* least one eventually commits; no fair execution has every engine fail
\* and restart forever.
RetryProgress == <>(\E e \in Engines : HasCommitted(e))

\* ------------------------------------------------------------------ C37

\* The wrapper of engine e runs Begin again (CmOnRestart) in this step.
Restarting(e) == pc[e] = "caught" /\ pc'[e] = "user"

\* CmOnRestart adds a draw of 0 .. 15 to cm_backoff_, sleeps for the sum and
\* keeps twice the sum, either taken modulo 2^16.
BackoffArithmetic ==
    [][\A e \in Engines :
          Restarting(e) =>
              \E r \in 0 .. kMaxDraw :
                  /\ slept_ns'[e] = (cm_backoff_[e] + r) % Pow2(kBackoffBits)
                  /\ cm_backoff_'[e] = (2 * slept_ns'[e]) % Pow2(kBackoffBits)]_vars

\* C37: each CmOnRestart adds a draw of 0 .. 15 to cm_backoff_, sleeps for
\* that many nanoseconds and doubles cm_backoff_, both modulo 2^16, and over
\* consecutive restarts the sleep never gets shorter: from the second
\* restart on it is at least twice the one before.
BackoffGrows ==
    [][\A e \in Engines :
          Restarting(e) =>
              /\ \E r \in 0 .. kMaxDraw :
                    /\ slept_ns'[e] = (cm_backoff_[e] + r) % Pow2(kBackoffBits)
                    /\ cm_backoff_'[e] = (2 * slept_ns'[e]) % Pow2(kBackoffBits)
              /\ slept_ns'[e] >= slept_ns[e]
              /\ slept_ns'[e] >= 2 * slept_ns[e]]_vars

\* ------------------------------------------------------------------ C38

\* No transaction runs on engine e.
NotRunning(e) == state_[e] = "INITIALIZED" /\ ~Crashed

\* Engine e is the write-owner of no stripe.
OwnsNothing(e) == \A s \in DOMAIN w_lock : w_lock[s] # e

\* A set lock bit belongs to a transaction that is running: the stripe has
\* an owner and the owner is in a RUNNING state.
LockBitsRunning ==
    \A s \in DOMAIN r_lock :
        ReadLockIsLocked(r_lock[s]) => w_lock[s] # 0 /\ IsRunning(state_[w_lock[s]])

\* The buffers of engine e are empty.
BuffersEmpty(e) == read_set_[e] = << >> /\ write_set_[e] = << >> /\ write_data_[e] = << >>

\* An engine outside a transaction owns no stripe and no lock bit.
QuiescentOwnsNothing ==
    (\A e \in Engines : NotRunning(e) => OwnsNothing(e)) /\ (~Crashed => LockBitsRunning)

\* C38: an engine whose state is INITIALIZED is the write-owner of no
\* stripe, has no lock bit set on any stripe, and its read set, write set
\* and write data are empty; so after Commit and End of read-write and of
\* read-only transactions, a read-only one that called WriteWord included.
QuiescentHoldsNothing ==
    /\ \A e \in Engines : NotRunning(e) => OwnsNothing(e) /\ BuffersEmpty(e)
    /\ ~Crashed => LockBitsRunning

\* ------------------------------------------------------------------ C39

\* Every stripe engine e owns is listed in its write set.
OwnedListed(e) == \A s \in DOMAIN w_lock : w_lock[s] = e => InWriteSet(e, s)

\* WriteWord's acquire step is one step here (TryLock and the two Create
\* calls), so no state lies in the middle of it.
OwnedStripesListed == ~Crashed => \A e \in Engines : OwnedListed(e)

\* C39: outside WriteWord's acquire step every stripe whose write-owner is
\* an engine has an entry in that engine's write set, so that Rollback, End
\* and Commit release it; also when a Create raises the out-of-capacity error
\* right after TryLock succeeded: once the wrapper's End has run and the
\* exception has left the wrapper, the engine owns no stripe.
HeldLocksRecorded ==
    ~Crashed =>
        \A e \in Engines :
            /\ OwnedListed(e)
            /\ LeftRaised(e) => OwnsNothing(e)

\* ------------------------------------------------------------------ C40

\* The next step of thread e enters BeginReadWrite / BeginReadOnly: from the
\* outermost wrapper's first round, or from its loop after a retry-eligible
\* error.
EntersBegin(e) ==
    \/ /\ pc[e] = "idle"
       /\ bi[e] <= Len(blocks[e])
       /\ Promotion(CurBlock(e).kind, state_[e]) = "NO_RUNNING"
    \/ pc[e] = "caught" /\ ShouldRetry(err[e])

\* The next step of thread e enters Commit: the function has returned.
EntersCommit(e) == pc[e] = "user" /\ ip[e] > Len(CurBlock(e).ops)

\* The next step of thread e enters End: the handler of the outermost
\* wrapper holds a non-retry error or a foreign exception.
EntersEnd(e) == pc[e] = "caught" /\ ~ShouldRetry(err[e])

\* C40: on a thread that called ThreadInit, whatever the nesting of Atomic
\* and AtomicRead and whatever error the function, ReadWord, WriteWord or
\* Commit raised, Begin is entered only in state INITIALIZED or in the
\* RUNNING state of the same mode, Commit and End only in a RUNNING state,
\* and the state is always one of UNINITIALIZED, INITIALIZED,
\* READ_WRITE_RUNNING, READ_ONLY_RUNNING.
WrapperAssertsHold ==
    \A e \in Engines :
        /\ state_[e] \in {"UNINITIALIZED", "INITIALIZED", "READ_WRITE_RUNNING",
                          "READ_ONLY_RUNNING"}
        /\ EntersBegin(e) => BeginAllowed(e, CurBlock(e).kind)
        /\ EntersCommit(e) => IsRunning(state_[e])
        /\ EntersEnd(e) => IsRunning(state_[e])

\* One thread is about to enter Begin again in the RUNNING state its failed
\* attempt left, the other has been through End with the exception of its
\* function and is INITIALIZED again.
WrapperAssertsWitness ==
    \E e1, e2 \in Engines :
        /\ e1 # e2
        /\ EntersBegin(e1) /\ pc[e1] = "caught" /\ IsRunning(state_[e1])
        /\ LeftRaised(e2) /\ state_[e2] = "INITIALIZED"

====
